---- MODULE Spec2Model ----
(***************************************************************************)
(* Model of the amalthea kernel's protocol engine: the message catalog     *)
(* (wire/jupyter_message.rs), the Shell socket loop and its busy/idle      *)
(* bracket (socket/shell.rs), the kernel's start-up with its Control,      *)
(* IOPub and Heartbeat loops (kernel.rs), and of ark's ShellHandler with   *)
(* its execution thread and its comms (ark/src/shell.rs,                   *)
(* data_viewer/r_data_viewer.rs). Beside the protocol engine: the help     *)
(* comm as its test drives it (tests/help.rs), harp's vectors              *)
(* (harp/src/vector.rs) and the subset completions of the language server  *)
(* (lsp/completions/sources/composite/subset.rs).                          *)
(***************************************************************************)
EXTENDS Integers, Sequences, FiniteSets, TLC

\* ------------------------------------------------------------------ bounds
\* Messages the front end sends during one run, on either socket.
MaxMsgs == 2
\* Envelopes that may wait unread on one socket.
MaxInbox == 1

\* ------------------------------------------------------------ the session
\* The kernel's Session (Kernel::new); every Socket gets a clone of it.
KernelSession == [session_id |-> "ksess", username |-> "kernel", key |-> "k1"]
\* The identity a front end puts in the headers of its own messages.
ClientSession == [session_id |-> "csess", username |-> "user", key |-> "k1"]
\* A key that is not the session's.
WrongKey == "k2"

\* ---------------------------------------------------------------- headers
\* Option<JupyterHeader>::None, kept header-shaped.
NoHeader == [msg_id |-> <<"none", 0>>, session |-> "", username |-> "", msg_type |-> ""]

\* JupyterHeader::create(msg_type, session_id, username); id stands for the
\* fresh uuid.
HeaderCreate(id, msg_type, session_id, username) ==
    [msg_id |-> id, session |-> session_id, username |-> username, msg_type |-> msg_type]

\* ------------------------------------------------------ the message types
\* The variants of enum Message.
Variants ==
    {"CompleteReply", "CompleteRequest", "ExecuteReply", "ExecuteReplyException",
     "ExecuteRequest", "ExecuteResult", "ExecuteError", "ExecuteInput",
     "IsCompleteReply", "IsCompleteRequest", "KernelInfoReply", "KernelInfoRequest",
     "ShutdownRequest", "Status", "CommInfoReply", "CommInfoRequest"}

\* Content types that implement MessageType without being a Message variant.
OtherContentTypes == {"CommOpen", "CommMsg", "CommClose", "ErrorReply", "ShutdownReply"}

\* T::message_type(): the wire tag of a content type.
MessageType(t) ==
    CASE t = "CompleteReply" -> "complete_reply"
      [] t = "CompleteRequest" -> "complete_request"
      [] t = "ExecuteReply" -> "execute_reply"
      [] t = "ExecuteReplyException" -> "execute_reply"
      [] t = "ExecuteRequest" -> "execute_request"
      [] t = "ExecuteResult" -> "execute_result"
      [] t = "ExecuteError" -> "error"
      [] t = "ExecuteInput" -> "execute_input"
      [] t = "IsCompleteReply" -> "is_complete_reply"
      [] t = "IsCompleteRequest" -> "is_complete_request"
      [] t = "KernelInfoReply" -> "kernel_info_reply"
      [] t = "KernelInfoRequest" -> "kernel_info_request"
      [] t = "ShutdownRequest" -> "shutdown_request"
      [] t = "Status" -> "status"
      [] t = "CommInfoReply" -> "comm_info_reply"
      [] t = "CommInfoRequest" -> "comm_info_request"
      [] t = "CommOpen" -> "comm_open"
      [] t = "CommMsg" -> "comm_msg"
      [] t = "CommClose" -> "comm_close"
      [] t = "ErrorReply" -> "error"
      [] t = "ShutdownReply" -> "shutdown_reply"

\* A tag no content type has.
BogusTag == "bogus_request"

\* ------------------------------------------------------------- the codec
\* The keyed hash over the signed frames; an ideal hash, so two signatures
\* agree only when key and frames agree.
Hmac(key, header, parent, content) == <<key, header, parent, content>>

\* A content frame: the schema is the shape of its JSON, i.e. the content
\* type it was serialized from.
Content(schema, status, body) == [schema |-> schema, status |-> status, body |-> body]

\* JupyterMessage<T>
JupyterMessage(ids, header, parent, content) ==
    [zmq_identities |-> ids, header |-> header, parent_header |-> parent, content |-> content]

NoMessage == JupyterMessage(<<>>, NoHeader, NoHeader, Content("", "", ""))

\* Result<_, Error>
Ok(v) == [ok |-> TRUE, kind |-> "", arg |-> "", val |-> v]
Err(kind, arg) == [ok |-> FALSE, kind |-> kind, arg |-> arg, val |-> NoMessage]

\* WireMessage::try_from(JupyterMessage<T>) followed by the signing done when
\* the frames are sent: the header, parent header and identities are kept
\* and the content is serialized.
ToWire(msg, key) ==
    [zmq_identities |-> msg.zmq_identities,
     signature |-> Hmac(key, msg.header, msg.parent_header, msg.content),
     header |-> msg.header,
     parent_header |-> msg.parent_header,
     content |-> msg.content,
     framed |-> TRUE]

\* WireMessage::read_from_socket: the frames must parse and the signature
\* must be the keyed hash of the received frames under the session's key.
WireRead(env, session) ==
    IF ~env.framed THEN Err("InvalidMessage", "")
    ELSE IF env.signature # Hmac(session.key, env.header, env.parent_header, env.content)
    THEN Err("BadSignature", "")
    ELSE Ok(JupyterMessage(env.zmq_identities, env.header, env.parent_header, env.content))

\* JupyterMessage::<T>::try_from(WireMessage): the content must deserialize
\* into T.
JupyterTryFrom(wire, t) ==
    IF wire.content.schema = t
    THEN Ok([variant |-> t, msg |-> wire])
    ELSE Err("InvalidMessage", wire.header.msg_type)

NoVariant == [variant |-> "", msg |-> NoMessage]
ErrV(kind, arg) == [ok |-> FALSE, kind |-> kind, arg |-> arg, val |-> NoVariant]

\* Lift the Result of JupyterTryFrom into the Result of Message::try_from.
Coerce(wire, t) ==
    IF JupyterTryFrom(wire, t).ok THEN JupyterTryFrom(wire, t)
    ELSE ErrV(JupyterTryFrom(wire, t).kind, JupyterTryFrom(wire, t).arg)

\* A classification that treats an unmatched tag as a default kind.
UnknownKind_Default(kind) ==
    Ok([variant |-> "KernelInfoRequest", msg |-> NoMessage])

\* The last line of Message::try_from.
UnknownKind(kind) == ErrV("UnknownMessageType", kind)

\* impl TryFrom<WireMessage> for Message: the if/else-if chain on the tag.
MessageTryFrom(msg) ==
    LET kind == msg.header.msg_type IN
    IF kind = MessageType("KernelInfoRequest") THEN Coerce(msg, "KernelInfoRequest")
    ELSE IF kind = MessageType("KernelInfoReply") THEN Coerce(msg, "KernelInfoReply")
    ELSE IF kind = MessageType("IsCompleteRequest") THEN Coerce(msg, "IsCompleteRequest")
    ELSE IF kind = MessageType("IsCompleteReply") THEN Coerce(msg, "IsCompleteReply")
    ELSE IF kind = MessageType("ExecuteRequest") THEN Coerce(msg, "ExecuteRequest")
    ELSE IF kind = MessageType("ExecuteReply") THEN Coerce(msg, "ExecuteReply")
    ELSE IF kind = MessageType("ExecuteResult") THEN Coerce(msg, "ExecuteResult")
    ELSE IF kind = MessageType("ExecuteInput") THEN Coerce(msg, "ExecuteInput")
    ELSE IF kind = MessageType("CompleteRequest") THEN Coerce(msg, "CompleteRequest")
    ELSE IF kind = MessageType("CompleteReply") THEN Coerce(msg, "CompleteReply")
    ELSE IF kind = MessageType("ShutdownRequest") THEN Coerce(msg, "ShutdownRequest")
    ELSE IF kind = MessageType("Status") THEN Coerce(msg, "Status")
    ELSE IF kind = MessageType("CommInfoRequest") THEN Coerce(msg, "CommInfoRequest")
    ELSE IF kind = MessageType("CommInfoReply") THEN Coerce(msg, "CommInfoReply")
    ELSE UnknownKind(kind)

\* A read that classifies the frames whatever the wire read reported.
ReadFromSocket_Unchecked(env, session) ==
    MessageTryFrom(JupyterMessage(env.zmq_identities, env.header, env.parent_header,
                                  env.content))

\* Message::read_from_socket: read the wire message (`?` returns its error)
\* and classify it.
ReadFromSocket(env, session) ==
    IF WireRead(env, session).ok
    THEN MessageTryFrom(WireRead(env, session).val)
    ELSE ErrV(WireRead(env, session).kind, WireRead(env, session).arg)

\* JupyterMessage::create
Create(id, t, content, parent, session) ==
    JupyterMessage(<<>>,
                   HeaderCreate(id, MessageType(t), session.session_id, session.username),
                   parent, content)

\* A create_reply that passes on the request's own parent header.
CreateReply_ParentOfParent(req, id, r, content, session) ==
    JupyterMessage(req.zmq_identities,
                   HeaderCreate(id, MessageType(r), session.session_id, session.username),
                   req.parent_header, content)

\* A create_reply that copies the session of the request's header.
CreateReply_ClientSession(req, id, r, content, session) ==
    JupyterMessage(req.zmq_identities,
                   HeaderCreate(id, MessageType(r), req.header.session,
                                req.header.username),
                   req.header, content)

\* A create_reply that builds the reply with create, without identities.
CreateReply_NoIdentities(req, id, r, content, session) ==
    JupyterMessage(<<>>,
                   HeaderCreate(id, MessageType(r), session.session_id, session.username),
                   req.header, content)

\* JupyterMessage::create_reply; r is the reply's content type R.
CreateReply(req, id, r, content, session) ==
    JupyterMessage(req.zmq_identities,
                   HeaderCreate(id, MessageType(r), session.session_id, session.username),
                   req.header, content)

\* An error_reply that uses the tag of ErrorReply itself.
ErrorReply_OwnTag(req, id, r, exception, session) ==
    JupyterMessage(req.zmq_identities,
                   HeaderCreate(id, MessageType("ErrorReply"), session.session_id,
                                session.username),
                   req.header, Content("ErrorReply", "error", exception))

\* JupyterMessage::error_reply::<R>
ErrorReply(req, id, r, exception, session) ==
    JupyterMessage(req.zmq_identities,
                   HeaderCreate(id, MessageType(r), session.session_id, session.username),
                   req.header, Content("ErrorReply", "error", exception))

\* ------------------------------------------------------------- the state
VARIABLES
    kpc,          \* Kernel::connect: the socket it creates next, or its end
    iopubRx,      \* where the Receiver<IOPubMessage> is: held, thread, dropped
    shellPc,      \* the Shell thread's position in listen / handle_request
    shellReq,     \* the Message the Shell thread is handling
    shellResult,  \* the Result the handler closure returned to handle_request
    handlerLock,  \* who holds the Mutex around the ShellHandler
    inbox,        \* envelopes waiting on the Shell socket
    ctlInbox,     \* envelopes waiting on the Control socket
    feSent,       \* messages the front end has sent so far
    reads,        \* every envelope a loop has read, with what became of it
    calls,        \* every handler invocation, with the reply built for it
    shellOut,     \* wire messages written to the Shell socket
    ctlOut,       \* wire messages written to the Control socket
    iopubQ,       \* every IOPubMessage accepted by the channel, in order
    pubOut,       \* messages the IOPub thread has published
    warns,        \* what the loops have logged with warn!
    cpc,          \* codec exercise: off, typed, raw, classified
    cmsg,         \* codec exercise: the typed message that was encoded
    cwire,        \* codec exercise: the wire message
    cres,         \* codec exercise: the Result of Message::read_from_socket
    execQ,        \* ark: ExecuteRequests waiting in the channel to the worker
    workerPc,     \* ark: the execution thread: recv, eval, gone
    evalLog,      \* ark: the evaluations the worker began and finished, in order
    hbPc,         \* the Heartbeat thread: unspawned or listen
    hbInbox,      \* payloads waiting on the Heartbeat socket
    hbOut,        \* payloads the Heartbeat loop has echoed
    hbSent,       \* heartbeat requests the front end has sent so far
    commCalls,    \* comms: every call of handle_comm_open, with its outcome
    comms,        \* comms: every comm that was opened, in order
    commWarns,    \* comms: what handle_comm_open has logged with warn!
    viewerSeq,    \* comms: ids RDataViewer::start has generated so far
    viewers,      \* comms: every RDataViewer that was started, in order
    commEvents,   \* comms: every CommEvent sent on comm_manager_tx, in order
    commClosed,   \* comms: the places in `comms` of the comms closed since
    commMsgCalls, \* comms: every call of handle_comm_msg, with its outcome
    commDelivered,\* comms: the comm_msg payloads handed to a comm's consumer
    commInfoCalls,\* comms: every call of handle_comm_info_request
    helpPc,       \* help comm: its thread: unstarted or recv
    helpRpcs,     \* help comm: every Rpc message sent to the comm, in order
    helpDone,     \* help comm: how many of them the comm has taken
    helpOut,      \* help comm: every message the comm has sent, in order
    helpUrls,     \* help comm: every ShowHelpUrlRequest sent to it, in order
    helpUrlOut,   \* help comm: every ShowHelpUrlReply it has sent, in order
    vecPc,        \* vector: off, input, created
    vecKind,      \* vector: numeric, integer or character
    vecData,      \* vector: the Rust values the vector is created from
    vecObj,       \* vector: the R object behind the vector
    vecGot,       \* vector: the results of get_unchecked, by index
    vecYield,     \* vector: what the iterator has returned so far
    vecEq,        \* vector: the result of comparing it with the values
    vecTried,     \* vector: the call of get made on it, with its result
    subPc,        \* subset completions: off, walk, decide, done
    subPath,      \* subset completions: the cursor's node and its ancestors
    subPoint,     \* subset completions: the cursor's column
    subAt,        \* subset completions: the place in subPath of `node`
    subNeeds,     \* subset completions: needs_completions
    subResult,    \* subset completions: what completions_from_subset returned
    dapPc,        \* DAP thread: start, accept, poll, respond, event, clear, dead
    dapBinds,     \* DAP: how many times the listener was bound
    dapWaiting,   \* DAP: clients that connected and were not accepted yet
    dapConnects,  \* DAP: clients that connected so far
    dapSession,   \* DAP: connections accepted so far; the last is being served
    dapConn,      \* DAP: the accepted connection: none, open, closed
    dapIn,        \* DAP: what the client sent and the server has not read yet
    dapSent,      \* DAP: messages the clients have sent so far
    dapReq,       \* DAP: the request serve is handling
    dapOut,       \* DAP: every response and event written, in order
    dapServes,    \* DAP: every call of serve that read something, with its end
    dapStarts,    \* DAP: every accepted session, with the shared state it met
    dapDisconnects, \* DAP: disconnects the server has cleaned up after
    dapDebugging, \* DAP: DapState.debugging
    dapStack,     \* DAP: DapState.stack
    dapDbgEpoch   \* DAP: dapDisconnects when R last set debugging to true

kernelVars == <<kpc, iopubRx, shellPc, shellReq, shellResult, handlerLock, inbox,
                ctlInbox, feSent, reads, calls, shellOut, ctlOut, iopubQ, pubOut, warns>>
codecVars == <<cpc, cmsg, cwire, cres>>
arkVars == <<execQ, workerPc, evalLog>>
hbVars == <<hbPc, hbInbox, hbOut, hbSent>>
commVars == <<commCalls, comms, commWarns, viewerSeq, viewers, commEvents, commClosed,
              commMsgCalls, commDelivered, commInfoCalls>>
\* What only RDataViewer::start writes.
viewerVars == <<viewers, commEvents>>
\* What a comm_open leaves alone.
commReqVars == <<commClosed, commMsgCalls, commDelivered, commInfoCalls>>
helpVars == <<helpPc, helpRpcs, helpDone, helpOut, helpUrls, helpUrlOut>>
vecVars == <<vecPc, vecKind, vecData, vecObj, vecGot, vecYield, vecEq, vecTried>>
subVars == <<subPc, subPath, subPoint, subAt, subNeeds, subResult>>
dapThreadVars == <<dapPc, dapBinds, dapSession, dapReq, dapOut, dapServes,
                   dapStarts, dapDisconnects>>
dapClientVars == <<dapWaiting, dapConnects, dapConn, dapIn, dapSent>>
dapStateVars == <<dapDebugging, dapStack, dapDbgEpoch>>
dapVars == <<dapThreadVars, dapClientVars, dapStateVars>>
\* The state of what is not part of the kernel's protocol engine.
toolVars == <<helpVars, vecVars, subVars, dapVars>>
\* Everything that is not the state of the Shell, IOPub and Control loops.
sideVars == <<codecVars, arkVars, hbVars, commVars, toolVars>>
\* The same without the codec's, ark's, the Heartbeat loop's and the
\* comms' variables.
besidesCodec == <<arkVars, hbVars, commVars, toolVars>>
besidesArk == <<codecVars, hbVars, commVars, toolVars>>
besidesHb == <<codecVars, arkVars, commVars, toolVars>>
besidesComm == <<codecVars, arkVars, hbVars, toolVars>>
\* The state of the protocol engine as a whole.
engineVars == <<kernelVars, codecVars, arkVars, hbVars, commVars>>
vars == <<kernelVars, sideVars>>

\* ------------------------------------------------------- the front end
\* The request kinds Shell::process_message dispatches.
ShellRequests ==
    {"KernelInfoRequest", "IsCompleteRequest", "ExecuteRequest", "CompleteRequest",
     "CommInfoRequest"}

\* What a front end (or anything else that reaches the socket) may send:
\* the tag, the shape of the content, the signing key, whether the content
\* was changed after signing, and whether the frames are well formed.
Template(tag, schema, key, tampered, framed) ==
    [tag |-> tag, schema |-> schema, key |-> key, tampered |-> tampered, framed |-> framed]

Good(t) == Template(MessageType(t), t, KernelSession.key, FALSE, TRUE)

ShellTemplates ==
    {Good(t) : t \in ShellRequests}
    \cup {Template(MessageType("ExecuteRequest"), "ExecuteRequest", KernelSession.key, TRUE, TRUE),
          Template(MessageType("CompleteRequest"), "CompleteRequest", KernelSession.key, FALSE, FALSE),
          Template(MessageType("KernelInfoRequest"), "Junk", KernelSession.key, FALSE, TRUE),
          Good("KernelInfoReply"),
          Template(BogusTag, "Junk", KernelSession.key, FALSE, TRUE)}

CtlTemplates ==
    {Good("ShutdownRequest"),
     Template(MessageType("ShutdownRequest"), "ShutdownRequest", WrongKey, FALSE, TRUE),
     Good("KernelInfoRequest")}

\* The front ends connected to the kernel's sockets.
FrontEnds == {"fe1", "fe2"}

\* The front end that sends the n-th envelope: they take turns.
SenderOf(n) == IF n % 2 = 1 THEN "fe1" ELSE "fe2"

\* The identity frames a ROUTER socket puts before what this peer sent.
Identities(fe) == <<fe>>

\* The peers a ROUTER socket delivers a message to: the one its first
\* identity frame names; without such a frame, none.
RoutedTo(wire) ==
    {fe \in FrontEnds : wire.zmq_identities # <<>> /\ Head(wire.zmq_identities) = fe}

\* The n-th envelope of the front ends, built from a template.
Envelope(n, tp) ==
    LET header == HeaderCreate(<<"fe", n>>, tp.tag, ClientSession.session_id,
                               ClientSession.username)
        content == Content(tp.schema, "", "body")
        signed == IF tp.tampered THEN Content(tp.schema, "", "other") ELSE content
    IN  [zmq_identities |-> Identities(SenderOf(n)),
         signature |-> Hmac(tp.key, header, NoHeader, signed),
         header |-> header,
         parent_header |-> NoHeader,
         content |-> content,
         framed |-> tp.framed]

ShellEnvelopes(n) == {Envelope(n, tp) : tp \in ShellTemplates}
CtlEnvelopes(n) == {Envelope(n, tp) : tp \in CtlTemplates}

\* --------------------------------------------------------------- Init
KernelInit ==
    /\ kpc = "shell_socket"
    /\ iopubRx = "held"
    /\ shellPc = "unspawned"
    /\ shellReq = NoVariant
    /\ shellResult = "none"
    /\ handlerLock = "free"
    /\ inbox = <<>>
    /\ ctlInbox = <<>>
    /\ feSent = 0
    /\ reads = <<>>
    /\ calls = <<>>
    /\ shellOut = <<>>
    /\ ctlOut = <<>>
    /\ iopubQ = <<>>
    /\ pubOut = <<>>
    /\ warns = <<>>

\* ark's Shell::new: the channel to the execution thread is empty and the
\* thread is spawned.
ArkInit ==
    /\ execQ = <<>>
    /\ workerPc = "recv"
    /\ evalLog = <<>>

\* No Heartbeat socket yet.
HbInit ==
    /\ hbPc = "unspawned"
    /\ hbInbox = <<>>
    /\ hbOut = <<>>
    /\ hbSent = 0

\* No comm has been opened.
CommInit ==
    /\ commCalls = <<>>
    /\ comms = <<>>
    /\ commWarns = <<>>
    /\ viewerSeq = 0
    /\ viewers = <<>>
    /\ commEvents = <<>>
    /\ commClosed = {}
    /\ commMsgCalls = <<>>
    /\ commDelivered = <<>>
    /\ commInfoCalls = <<>>

\* The help comm has not been started.
HelpInit ==
    /\ helpPc = "unstarted"
    /\ helpRpcs = <<>>
    /\ helpDone = 0
    /\ helpOut = <<>>
    /\ helpUrls = <<>>
    /\ helpUrlOut = <<>>

\* No call of get.
NoTry == [index |-> <<>>, ok |-> FALSE, read |-> "unset", value |-> <<>>]

\* No R object.
NoObject == [sexptype |-> "NILSXP", elems |-> <<>>]

\* No vector is under study.
VecOff ==
    /\ vecPc = "off"
    /\ vecKind = ""
    /\ vecData = <<>>
    /\ vecObj = NoObject
    /\ vecGot = <<>>
    /\ vecYield = <<>>
    /\ vecEq = "unset"
    /\ vecTried = NoTry

\* No completion request is under study.
SubOff ==
    /\ subPc = "off"
    /\ subPath = <<>>
    /\ subPoint = 0
    /\ subAt = 0
    /\ subNeeds = FALSE
    /\ subResult = "unset"

\* No R frame.
NoStack == "None"

\* No DAP request.
NoDapReq == [seq |-> 0, command |-> ""]

\* start_dap was called and has not bound its listener yet; DapState is as
\* constructed.
DapInit ==
    /\ dapPc = "start"
    /\ dapBinds = 0
    /\ dapWaiting = 0
    /\ dapConnects = 0
    /\ dapSession = 0
    /\ dapConn = "none"
    /\ dapIn = <<>>
    /\ dapSent = 0
    /\ dapReq = NoDapReq
    /\ dapOut = <<>>
    /\ dapServes = <<>>
    /\ dapStarts = <<>>
    /\ dapDisconnects = 0
    /\ dapDebugging = FALSE
    /\ dapStack = NoStack
    /\ dapDbgEpoch = 0

\* The protocol engine after construction, the codec exercise off.
EngineInit ==
    /\ KernelInit
    /\ cpc = "off"
    /\ cmsg = NoVariant
    /\ cwire = ToWire(NoMessage, KernelSession.key)
    /\ cres = ErrV("", "")
    /\ ArkInit
    /\ HbInit
    /\ CommInit

Init ==
    /\ EngineInit
    /\ HelpInit
    /\ DapInit
    /\ VecOff
    /\ SubOff

\* ------------------------------------------------------ Kernel::connect
\* Socket::new for the Shell socket, then thread::spawn of shell_thread. On
\* failure `?` returns and the arguments of connect are dropped, the
\* Receiver<IOPubMessage> among them.
ConnectShell ==
    /\ kpc = "shell_socket"
    /\ \E created \in BOOLEAN :
         IF created
         THEN /\ kpc' = "iopub_socket"
              /\ shellPc' = "wait"
              /\ UNCHANGED iopubRx
         ELSE /\ kpc' = "failed"
              /\ iopubRx' = "dropped"
              /\ UNCHANGED shellPc
    /\ UNCHANGED <<shellReq, shellResult, handlerLock, inbox, ctlInbox, feSent, reads,
                   calls, shellOut, ctlOut, iopubQ, pubOut, warns,
                   sideVars>>

\* Socket::new for the IOPub socket, then thread::spawn of iopub_thread,
\* which takes the receiver.
ConnectIOPub ==
    /\ kpc = "iopub_socket"
    /\ \E created \in BOOLEAN :
         IF created
         THEN /\ kpc' = "heartbeat_socket"
              /\ iopubRx' = "thread"
         ELSE /\ kpc' = "failed"
              /\ iopubRx' = "dropped"
    /\ UNCHANGED <<shellPc, shellReq, shellResult, handlerLock, inbox, ctlInbox, feSent,
                   reads, calls, shellOut, ctlOut, iopubQ, pubOut, warns,
                   sideVars>>

\* Socket::new for the Heartbeat socket, then thread::spawn of
\* heartbeat_thread.
ConnectHeartbeat ==
    /\ kpc = "heartbeat_socket"
    /\ \E created \in BOOLEAN :
         /\ kpc' = IF created THEN "control_socket" ELSE "failed"
         /\ hbPc' = IF created THEN "listen" ELSE hbPc
    /\ UNCHANGED <<iopubRx, shellPc, shellReq, shellResult, handlerLock, inbox, ctlInbox,
                   feSent, reads, calls, shellOut, ctlOut, iopubQ, pubOut, warns,
                   hbInbox, hbOut, hbSent, besidesHb>>

\* Socket::new for the Control socket; control_thread then runs on the
\* calling thread.
ConnectControl ==
    /\ kpc = "control_socket"
    /\ \E created \in BOOLEAN :
         kpc' = IF created THEN "control" ELSE "failed"
    /\ UNCHANGED <<iopubRx, shellPc, shellReq, shellResult, handlerLock, inbox, ctlInbox,
                   feSent, reads, calls, shellOut, ctlOut, iopubQ, pubOut, warns,
                   sideVars>>

\* ------------------------------------------------------- the front end
\* A front end writes an envelope to the bound Shell socket.
FrontEndSendShell ==
    /\ shellPc # "unspawned"
    /\ feSent < MaxMsgs
    /\ Len(inbox) < MaxInbox
    /\ \E e \in ShellEnvelopes(feSent + 1) : inbox' = Append(inbox, e)
    /\ feSent' = feSent + 1
    /\ UNCHANGED <<kpc, iopubRx, shellPc, shellReq, shellResult, handlerLock, ctlInbox,
                   reads, calls, shellOut, ctlOut, iopubQ, pubOut, warns,
                   sideVars>>

\* A front end writes an envelope to the bound Control socket.
FrontEndSendControl ==
    /\ kpc = "control"
    /\ feSent < MaxMsgs
    /\ Len(ctlInbox) < MaxInbox
    /\ \E e \in CtlEnvelopes(feSent + 1) : ctlInbox' = Append(ctlInbox, e)
    /\ feSent' = feSent + 1
    /\ UNCHANGED <<kpc, iopubRx, shellPc, shellReq, shellResult, handlerLock, inbox,
                   reads, calls, shellOut, ctlOut, iopubQ, pubOut, warns,
                   sideVars>>

\* ------------------------------------------------------ the Shell thread
\* One entry of `reads`.
ReadEntry(chan, env, res) ==
    [chan |-> chan, env |-> env, ok |-> res.ok, kind |-> res.kind, arg |-> res.arg]

\* One entry of `warns`.
Warn(by, what, id) == [by |-> by, what |-> what, id |-> id]

\* A listen whose Err arm leaves the loop.
ListenOnReadError_Stops == "stopped"

\* Shell::listen, the Err arm of the read: warn! and `continue`.
ListenOnReadError == "wait"

\* A process_message with a catch-all arm that routes every message.
ProcessMessage_RoutesAll(msg) == Ok(msg.msg)

\* Shell::process_message: the match on the variant.
ProcessMessage(msg) ==
    IF msg.variant = "KernelInfoRequest" THEN Ok(msg.msg)
    ELSE IF msg.variant = "IsCompleteRequest" THEN Ok(msg.msg)
    ELSE IF msg.variant = "ExecuteRequest" THEN Ok(msg.msg)
    ELSE IF msg.variant = "CompleteRequest" THEN Ok(msg.msg)
    ELSE IF msg.variant = "CommInfoRequest" THEN Ok(msg.msg)
    ELSE Err("UnsupportedMessage", "shell")

\* A listen that reads the next message once the handler has returned,
\* before handle_request is through.
ListenReady_Early(pc) == pc \in {"wait", "idle"}

\* Shell::listen reads at the top of its loop only: process_message, and
\* with it handle_request, has returned.
ListenReady(pc) == pc = "wait"

\* A listen that announces Busy for every message it could read, before
\* process_message looks at the variant.
ShellRead_BusyFirst ==
    /\ ListenReady(shellPc)
    /\ inbox # <<>>
    /\ LET e == Head(inbox)
           r == ReadFromSocket(e, KernelSession)
       IN  /\ inbox' = Tail(inbox)
           /\ IF ~r.ok
              THEN /\ reads' = Append(reads, ReadEntry("shell", e, r))
                   /\ warns' = Append(warns, Warn("shell", r.kind, e.header.msg_id))
                   /\ shellPc' = ListenOnReadError
                   /\ UNCHANGED <<shellReq, iopubQ>>
              ELSE IF ~ProcessMessage(r.val).ok
              THEN /\ reads' = Append(reads, ReadEntry("shell", e, ProcessMessage(r.val)))
                   /\ warns' = Append(warns, Warn("shell", "UnsupportedMessage",
                                                  e.header.msg_id))
                   /\ iopubQ' = Append(iopubQ, [kind |-> "Status",
                                                parent |-> r.val.msg.header,
                                                state |-> "busy"])
                   /\ shellPc' = "wait"
                   /\ UNCHANGED shellReq
              ELSE /\ reads' = Append(reads, ReadEntry("shell", e, r))
                   /\ shellReq' = r.val
                   /\ shellPc' = "busy"
                   /\ UNCHANGED <<warns, iopubQ>>
    /\ UNCHANGED <<kpc, iopubRx, shellResult, handlerLock, ctlInbox, feSent, calls,
                   shellOut, ctlOut, pubOut,
                   sideVars>>

\* Shell::listen up to the call of handle_request: read the next message;
\* a read error is logged and the loop continues; a message that
\* process_message does not route is logged as UnsupportedMessage.
ShellRead ==
    /\ ListenReady(shellPc)
    /\ inbox # <<>>
    /\ LET e == Head(inbox)
           r == ReadFromSocket(e, KernelSession)
       IN  /\ inbox' = Tail(inbox)
           /\ IF ~r.ok
              THEN /\ reads' = Append(reads, ReadEntry("shell", e, r))
                   /\ warns' = Append(warns, Warn("shell", r.kind, e.header.msg_id))
                   /\ shellPc' = ListenOnReadError
                   /\ UNCHANGED shellReq
              ELSE IF ~ProcessMessage(r.val).ok
              THEN /\ reads' = Append(reads, ReadEntry("shell", e, ProcessMessage(r.val)))
                   /\ warns' = Append(warns, Warn("shell", "UnsupportedMessage",
                                                  e.header.msg_id))
                   /\ shellPc' = "wait"
                   /\ UNCHANGED shellReq
              ELSE /\ reads' = Append(reads, ReadEntry("shell", e, r))
                   /\ shellReq' = r.val
                   /\ shellPc' = "busy"
                   /\ UNCHANGED warns
    /\ UNCHANGED <<kpc, iopubRx, shellResult, handlerLock, ctlInbox, feSent, calls,
                   shellOut, ctlOut, iopubQ, pubOut,
                   sideVars>>

\* Sender::send inside Shell::send_state succeeds while the receiver exists.
SendStateOk(rx) == rx # "dropped"

\* A send_state that reports Busy whatever state it was asked to report.
StatusEvent_AlwaysBusy(parent, state) ==
    [kind |-> "Status", parent |-> parent.header, state |-> "busy"]

\* IOPubMessage::Status(parent.header, KernelStatus { execution_state })
StatusEvent(parent, state) ==
    [kind |-> "Status", parent |-> parent.header, state |-> state]

\* A handle_request that returns the error of send_state(req, Busy) to
\* listen instead of going on to the handler.
ShellSendBusy_Escalates ==
    /\ shellPc = "busy"
    /\ IF SendStateOk(iopubRx)
       THEN /\ iopubQ' = Append(iopubQ, StatusEvent(shellReq.msg, "busy"))
            /\ shellPc' = "lock"
            /\ UNCHANGED <<warns, shellReq>>
       ELSE /\ warns' = Append(warns, Warn("shell", "busy", shellReq.msg.header.msg_id))
            /\ shellPc' = "wait"
            /\ shellReq' = NoVariant
            /\ UNCHANGED iopubQ
    /\ UNCHANGED <<kpc, iopubRx, shellResult, handlerLock, inbox, ctlInbox,
                   feSent, reads, calls, shellOut, ctlOut, pubOut,
                   sideVars>>

\* handle_request, first statement: send_state(req, Busy); a failure is
\* only logged.
ShellSendBusy ==
    /\ shellPc = "busy"
    /\ IF SendStateOk(iopubRx)
       THEN /\ iopubQ' = Append(iopubQ, StatusEvent(shellReq.msg, "busy"))
            /\ UNCHANGED warns
       ELSE /\ warns' = Append(warns, Warn("shell", "busy", shellReq.msg.header.msg_id))
            /\ UNCHANGED iopubQ
    /\ shellPc' = "lock"
    /\ UNCHANGED <<kpc, iopubRx, shellReq, shellResult, handlerLock, inbox, ctlInbox,
                   feSent, reads, calls, shellOut, ctlOut, pubOut,
                   sideVars>>

\* A handle_request that goes on to the handler without taking the lock.
ShellLock_Skips ==
    /\ shellPc = "lock"
    /\ shellPc' = "handle"
    /\ UNCHANGED <<kpc, iopubRx, shellReq, shellResult, handlerLock, inbox, ctlInbox,
                   feSent, reads, calls, shellOut, ctlOut, iopubQ, pubOut, warns,
                   sideVars>>

\* handle_request: self.handler.lock().unwrap()
ShellLock ==
    /\ shellPc = "lock"
    /\ handlerLock = "free"
    /\ handlerLock' = "shell"
    /\ shellPc' = "handle"
    /\ UNCHANGED <<kpc, iopubRx, shellReq, shellResult, inbox, ctlInbox, feSent, reads,
                   calls, shellOut, ctlOut, iopubQ, pubOut, warns,
                   sideVars>>

\* What a ShellHandler method returns in Ok for a request of type t.
ReplyType(t) ==
    CASE t = "KernelInfoRequest" -> "KernelInfoReply"
      [] t = "IsCompleteRequest" -> "IsCompleteReply"
      [] t = "ExecuteRequest" -> "ExecuteReply"
      [] t = "CompleteRequest" -> "CompleteReply"
      [] t = "CommInfoRequest" -> "CommInfoReply"

\* The exception a handler reports.
Exception == "exception"

\* Shell::handle_execute_request: both arms use send_reply.
HandleExecuteRequest(req, id, outcome) ==
    IF outcome = "ok"
    THEN CreateReply(req, id, "ExecuteReply", Content("ExecuteReply", "ok", "reply"),
                     KernelSession)
    ELSE CreateReply(req, id, "ExecuteReplyException",
                     Content("ExecuteReplyException", "error", Exception), KernelSession)

\* Shell::handle_is_complete_request
HandleIsCompleteRequest(req, id, outcome) ==
    IF outcome = "ok"
    THEN CreateReply(req, id, "IsCompleteReply",
                     Content("IsCompleteReply", "complete", "reply"), KernelSession)
    ELSE ErrorReply(req, id, "IsCompleteReply", Exception, KernelSession)

\* Shell::handle_info_request
HandleInfoRequest(req, id, outcome) ==
    IF outcome = "ok"
    THEN CreateReply(req, id, "KernelInfoReply", Content("KernelInfoReply", "ok", "reply"),
                     KernelSession)
    ELSE ErrorReply(req, id, "KernelInfoReply", Exception, KernelSession)

\* Shell::handle_complete_request
HandleCompleteRequest(req, id, outcome) ==
    IF outcome = "ok"
    THEN CreateReply(req, id, "CompleteReply", Content("CompleteReply", "ok", "reply"),
                     KernelSession)
    ELSE ErrorReply(req, id, "CompleteReply", Exception, KernelSession)

\* Shell::handle_comm_info_request
HandleCommInfoRequest(req, id, outcome) ==
    IF outcome = "ok"
    THEN CreateReply(req, id, "CommInfoReply", Content("CommInfoReply", "ok", "reply"),
                     KernelSession)
    ELSE ErrorReply(req, id, "CommInfoReply", Exception, KernelSession)

\* An execute handler that sends its reply in both arms, one after the
\* other, and the other handlers as they are.
HandlerReplies_Twice(msg, id, outcome) ==
    CASE msg.variant = "KernelInfoRequest" -> <<HandleInfoRequest(msg.msg, id, outcome)>>
      [] msg.variant = "IsCompleteRequest" ->
            <<HandleIsCompleteRequest(msg.msg, id, outcome)>>
      [] msg.variant = "ExecuteRequest" ->
            <<HandleExecuteRequest(msg.msg, id, "ok"),
              HandleExecuteRequest(msg.msg, id, "err")>>
      [] msg.variant = "CompleteRequest" -> <<HandleCompleteRequest(msg.msg, id, outcome)>>
      [] msg.variant = "CommInfoRequest" -> <<HandleCommInfoRequest(msg.msg, id, outcome)>>

\* The closure process_message hands to handle_request for each variant:
\* the replies it sends, in order.
HandlerReplies(msg, id, outcome) ==
    CASE msg.variant = "KernelInfoRequest" -> <<HandleInfoRequest(msg.msg, id, outcome)>>
      [] msg.variant = "IsCompleteRequest" ->
            <<HandleIsCompleteRequest(msg.msg, id, outcome)>>
      [] msg.variant = "ExecuteRequest" -> <<HandleExecuteRequest(msg.msg, id, outcome)>>
      [] msg.variant = "CompleteRequest" -> <<HandleCompleteRequest(msg.msg, id, outcome)>>
      [] msg.variant = "CommInfoRequest" -> <<HandleCommInfoRequest(msg.msg, id, outcome)>>

\* One entry of `calls`.
CallEntry(msg, outcome, replies, sent) ==
    [req |-> msg.msg, variant |-> msg.variant, outcome |-> outcome, replies |-> replies,
     sent |-> sent]

\* handle_request: handler(shell_handler.deref_mut(), req.clone()). The
\* ShellHandler method returns Ok or Err; the reply is built and written to
\* the socket, which may fail.
ShellHandle ==
    /\ shellPc = "handle"
    /\ \E outcome \in {"ok", "err"}, sent \in BOOLEAN :
         LET replies == HandlerReplies(shellReq, <<"shell", Len(calls) + 1>>, outcome)
         IN  /\ calls' = Append(calls, CallEntry(shellReq, outcome, replies, sent))
             /\ shellOut' = IF sent
                            THEN shellOut \o [i \in 1..Len(replies) |->
                                                ToWire(replies[i], KernelSession.key)]
                            ELSE shellOut
             /\ shellResult' = IF sent THEN "ok" ELSE "err"
    /\ shellPc' = "idle"
    /\ UNCHANGED <<kpc, iopubRx, shellReq, handlerLock, inbox, ctlInbox, feSent, reads,
                   ctlOut, iopubQ, pubOut, warns,
                   sideVars>>

\* handle_request, after the handler: send_state(req, Idle), then the
\* guard of the handler lock is dropped and the result returned to listen,
\* which logs an Err.
ShellSendIdle ==
    /\ shellPc = "idle"
    /\ LET w1 == IF SendStateOk(iopubRx) THEN <<>>
                 ELSE <<Warn("shell", "idle", shellReq.msg.header.msg_id)>>
           w2 == IF shellResult = "err"
                 THEN <<Warn("shell", "SendError", shellReq.msg.header.msg_id)>>
                 ELSE <<>>
       IN  /\ iopubQ' = IF SendStateOk(iopubRx)
                        THEN Append(iopubQ, StatusEvent(shellReq.msg, "idle"))
                        ELSE iopubQ
           /\ warns' = warns \o w1 \o w2
    /\ handlerLock' = "free"
    /\ shellReq' = NoVariant
    /\ shellResult' = "none"
    /\ shellPc' = "wait"
    /\ UNCHANGED <<kpc, iopubRx, inbox, ctlInbox, feSent, reads, calls, shellOut, ctlOut,
                   pubOut,
                   sideVars>>

\* ------------------------------------------------------ the IOPub thread
\* IOPub::listen: take the next IOPubMessage from the receiver, build the
\* message of its kind with JupyterMessage::create and publish it.
IOPubPublish ==
    /\ iopubRx = "thread"
    /\ Len(pubOut) < Len(iopubQ)
    /\ LET ev == iopubQ[Len(pubOut) + 1]
       IN  pubOut' = Append(pubOut,
                            Create(<<"iopub", Len(pubOut) + 1>>, ev.kind,
                                   Content(ev.kind, "", ev.state), ev.parent,
                                   KernelSession))
    /\ UNCHANGED <<kpc, iopubRx, shellPc, shellReq, shellResult, handlerLock, inbox,
                   ctlInbox, feSent, reads, calls, shellOut, ctlOut, iopubQ, warns,
                   sideVars>>

\* ---------------------------------------------------- the Control thread
\* A Control loop that takes the handler lock before it serves a message.
ControlReady_NeedsHandler(lock, pc) == lock = "free"

\* Kernel::control_thread: Control::new is given the socket alone, neither
\* the handler nor anything of the Shell loop, so the Control loop has
\* nothing to wait for but the next message.
ControlReady(lock, pc) == TRUE

\* Control::listen: read the next message; a shutdown request is answered,
\* anything else is logged.
ControlRead ==
    /\ kpc = "control"
    /\ ControlReady(handlerLock, shellPc)
    /\ ctlInbox # <<>>
    /\ LET e == Head(ctlInbox)
           r == ReadFromSocket(e, KernelSession)
       IN  /\ ctlInbox' = Tail(ctlInbox)
           /\ IF r.ok /\ r.val.variant = "ShutdownRequest"
              THEN /\ reads' = Append(reads, ReadEntry("control", e, r))
                   /\ ctlOut' = Append(ctlOut,
                         ToWire(CreateReply(r.val.msg, <<"control", Len(ctlOut) + 1>>,
                                            "ShutdownReply",
                                            Content("ShutdownReply", "ok", ""),
                                            KernelSession),
                                KernelSession.key))
                   /\ UNCHANGED warns
              ELSE /\ reads' = Append(reads,
                         ReadEntry("control", e,
                                   IF r.ok THEN Err("UnsupportedMessage", "control") ELSE r))
                   /\ warns' = Append(warns, Warn("control",
                                                  IF r.ok THEN "UnsupportedMessage" ELSE r.kind,
                                                  e.header.msg_id))
                   /\ UNCHANGED ctlOut
    /\ UNCHANGED <<kpc, iopubRx, shellPc, shellReq, shellResult, handlerLock, inbox,
                   feSent, calls, shellOut, iopubQ, pubOut,
                   sideVars>>

\* ------------------------------------------------------ the specification
Next ==
    \/ ConnectShell
    \/ ConnectIOPub
    \/ ConnectHeartbeat
    \/ ConnectControl
    \/ FrontEndSendShell
    \/ FrontEndSendControl
    \/ ShellRead
    \/ ShellSendBusy
    \/ ShellLock
    \/ ShellHandle
    \/ ShellSendIdle
    \/ IOPubPublish
    \/ ControlRead

Spec == Init /\ [][Next]_vars

\* While the process lives the Shell thread runs whenever it can take a
\* step: it is a thread of its own, Sender::send never blocks, nothing else
\* takes the handler lock, and the handler method is taken to return.
ShellFair ==
    /\ WF_vars(ShellRead)
    /\ WF_vars(ShellSendBusy)
    /\ WF_vars(ShellLock)
    /\ WF_vars(ShellHandle)
    /\ WF_vars(ShellSendIdle)

FairSpec == Spec /\ ShellFair

\* The Control loop runs on the thread that called connect and takes a step
\* whenever a message waits on its socket; nothing is assumed of the Shell
\* thread, which may stay inside a handler for ever.
ControlFairSpec == Spec /\ WF_vars(ControlRead)

\* ---------------------------------------------- the Heartbeat thread
\* Heartbeat requests the front end sends during one run.
MaxPings == 1

\* A front end writes a heartbeat request to the bound Heartbeat socket.
FrontEndPing ==
    /\ hbPc = "listen"
    /\ hbSent < MaxPings
    /\ Len(hbInbox) < MaxInbox
    /\ hbInbox' = Append(hbInbox, <<"ping", hbSent + 1>>)
    /\ hbSent' = hbSent + 1
    /\ UNCHANGED <<kernelVars, hbPc, hbOut, besidesHb>>

\* A Heartbeat loop that takes the handler lock before it answers.
HeartbeatReady_NeedsHandler(lock, pc) == lock = "free"

\* Kernel::heartbeat_thread: Heartbeat::new is given the socket alone,
\* neither the handler nor anything of the other loops, so the Heartbeat
\* loop has nothing to wait for but the next request.
HeartbeatReady(lock, pc) == TRUE

\* One entry of hbOut: the payload echoed, and where the Shell thread was
\* and how many messages waited on the Control socket at that moment.
HbEntry(payload, pc, waiting) == [payload |-> payload, shellAt |-> pc, ctlWaiting |-> waiting]

\* Heartbeat::listen: receive the payload and echo it back at once.
HeartbeatEcho ==
    /\ hbPc = "listen"
    /\ HeartbeatReady(handlerLock, shellPc)
    /\ hbInbox # <<>>
    /\ hbOut' = Append(hbOut, HbEntry(Head(hbInbox), shellPc, Len(ctlInbox)))
    /\ hbInbox' = Tail(hbInbox)
    /\ UNCHANGED <<kernelVars, hbPc, hbSent, besidesHb>>

HbNext ==
    \/ Next
    \/ FrontEndPing
    \/ HeartbeatEcho

\* The Heartbeat loop is a thread of its own and takes a step whenever a
\* request waits on its socket; nothing is assumed of the other threads.
HeartbeatSpec == Init /\ [][HbNext]_vars /\ WF_vars(HeartbeatEcho)

\* ------------------------------------- ark: the handler and its worker
\* What the front end sends in the runs that exercise ark's handler.
ArkTemplates == {Good("ExecuteRequest"), Good("CommInfoRequest")}

\* A front end writes a request to the bound Shell socket.
ArkFrontEndSend ==
    /\ shellPc # "unspawned"
    /\ feSent < MaxMsgs
    /\ Len(inbox) < MaxInbox
    /\ \E tp \in ArkTemplates : inbox' = Append(inbox, Envelope(feSent + 1, tp))
    /\ feSent' = feSent + 1
    /\ UNCHANGED <<kpc, iopubRx, shellPc, shellReq, shellResult, handlerLock, ctlInbox,
                   reads, calls, shellOut, ctlOut, iopubQ, pubOut, warns,
                   sideVars>>

\* A submit that puts the request ahead of the waiting ones.
ArkSubmit_Front(q, item) == <<item>> \o q

\* req_sender.send in ark's handle_execute_request: the request joins the
\* channel behind the ones already waiting.
ArkSubmit(q, item) == Append(q, item)

\* What the handler sends: a clone of the ExecuteRequest content; `of`
\* recalls the message it arrived in.
ExecItem(msg) == [content |-> msg.content, of |-> msg.header.msg_id]

\* handle_request with ark's Shell as the ShellHandler: every method
\* returns Ok; handle_execute_request first hands the request to the
\* execution thread and only warns when that fails.
ArkShellHandle ==
    /\ shellPc = "handle"
    /\ \E sent \in BOOLEAN :
         LET replies == HandlerReplies(shellReq, <<"shell", Len(calls) + 1>>, "ok")
         IN  /\ calls' = Append(calls, CallEntry(shellReq, "ok", replies, sent))
             /\ shellOut' = IF sent
                            THEN shellOut \o [i \in 1..Len(replies) |->
                                                ToWire(replies[i], KernelSession.key)]
                            ELSE shellOut
             /\ shellResult' = IF sent THEN "ok" ELSE "err"
    /\ IF shellReq.variant # "ExecuteRequest"
       THEN UNCHANGED <<execQ, warns>>
       ELSE IF workerPc # "gone"
       THEN /\ execQ' = ArkSubmit(execQ, ExecItem(shellReq.msg))
            /\ UNCHANGED warns
       ELSE /\ warns' = Append(warns, Warn("ark", "deliver", shellReq.msg.header.msg_id))
            /\ UNCHANGED execQ
    /\ shellPc' = "idle"
    /\ UNCHANGED <<kpc, iopubRx, shellReq, handlerLock, inbox, ctlInbox, feSent, reads,
                   ctlOut, iopubQ, pubOut, workerPc, evalLog, besidesArk>>

\* An IOPubMessage of the execution thread; the payload recalls the request
\* whose code it reports on.
WorkerEvent(kind, of) == [kind |-> kind, parent |-> NoHeader, state |-> of]

\* One entry of evalLog.
EvalEntry(ev, of) == [ev |-> ev, of |-> of]

\* The execution thread takes the next request from its receiver, begins
\* to evaluate it and announces the input.
WorkerTake ==
    /\ workerPc = "recv"
    /\ execQ # <<>>
    /\ LET it == Head(execQ)
       IN  /\ execQ' = Tail(execQ)
           /\ evalLog' = Append(evalLog, EvalEntry("begin", it.of))
           /\ IF SendStateOk(iopubRx)
              THEN /\ iopubQ' = Append(iopubQ, WorkerEvent("ExecuteInput", it.of))
                   /\ UNCHANGED warns
              ELSE /\ warns' = Append(warns, Warn("worker", "ExecuteInput", it.of))
                   /\ UNCHANGED iopubQ
    /\ workerPc' = "eval"
    /\ UNCHANGED <<kpc, iopubRx, shellPc, shellReq, shellResult, handlerLock, inbox,
                   ctlInbox, feSent, reads, calls, shellOut, ctlOut, pubOut, besidesArk>>

\* The execution thread finishes the evaluation, announces the result and
\* goes back to its receiver.
WorkerFinish ==
    /\ workerPc = "eval"
    /\ LET of == evalLog[Len(evalLog)].of
       IN  /\ evalLog' = Append(evalLog, EvalEntry("end", of))
           /\ IF SendStateOk(iopubRx)
              THEN /\ iopubQ' = Append(iopubQ, WorkerEvent("ExecuteResult", of))
                   /\ UNCHANGED warns
              ELSE /\ warns' = Append(warns, Warn("worker", "ExecuteResult", of))
                   /\ UNCHANGED iopubQ
    /\ workerPc' = "recv"
    /\ UNCHANGED <<kpc, iopubRx, shellPc, shellReq, shellResult, handlerLock, inbox,
                   ctlInbox, feSent, reads, calls, shellOut, ctlOut, pubOut, execQ,
                   besidesArk>>

\* The execution thread ends while it waits for a request; its receiver is
\* dropped with it.
WorkerExit ==
    /\ workerPc = "recv"
    /\ workerPc' = "gone"
    /\ execQ' = <<>>
    /\ UNCHANGED <<kernelVars, evalLog, besidesArk>>

ArkNext ==
    \/ ConnectShell
    \/ ConnectIOPub
    \/ ConnectHeartbeat
    \/ ConnectControl
    \/ ArkFrontEndSend
    \/ ShellRead
    \/ ShellSendBusy
    \/ ShellLock
    \/ ArkShellHandle
    \/ ShellSendIdle
    \/ IOPubPublish
    \/ WorkerTake
    \/ WorkerFinish
    \/ WorkerExit

ArkSpec == Init /\ [][ArkNext]_vars

\* -------------------------------------------------------------- comms
\* Comms opened or attempted during one run.
MaxComms == 3

\* lsp::comm::LSP_COMM_ID, the one id ark's handler knows.
LSP_COMM_ID == <<"lsp", 0>>

\* The comm ids a front end may put in a comm_open.
FrontEndCommIds == {LSP_COMM_ID, <<"fe", 1>>, <<"fe", 2>>}

\* The target names a front end may put in a comm_open.
TargetNames == {"lsp", "unknown.target"}

\* The target names the kernel has a consumer for: the language server's.
RecognizedTargets == {"lsp"}

\* Uuid::new_v4(): the n-th id generated; no two are alike.
Uuid(n) == <<"uuid", n>>

\* One opened comm.
Comm(comm_id, target_name, initiator) ==
    [comm_id |-> comm_id, target_name |-> target_name, initiator |-> initiator]

\* ark's handle_comm_open for a comm_open with the given comm_id and
\* target_name, whose data do or do not parse as StartLsp: the LSP is
\* started when the comm_id is LSP_COMM_ID and the data parse; anything
\* else is logged; the result is Ok(()) in every case.
HandleCommOpen ==
    /\ Len(commCalls) + viewerSeq < MaxComms
    /\ \E comm_id \in FrontEndCommIds, target_name \in TargetNames, parses \in BOOLEAN :
         /\ commCalls' = Append(commCalls,
                                [comm_id |-> comm_id, target_name |-> target_name,
                                 parses |-> parses, result |-> "Ok"])
         /\ IF comm_id = LSP_COMM_ID
            THEN IF parses
                 THEN /\ comms' = Append(comms, Comm(comm_id, target_name, "FrontEnd"))
                      /\ UNCHANGED commWarns
                 ELSE /\ commWarns' = Append(commWarns, Warn("ark", "lsp data", comm_id))
                      /\ UNCHANGED comms
            ELSE /\ commWarns' = Append(commWarns, Warn("ark", "unknown comm", comm_id))
                 /\ UNCHANGED comms
    /\ UNCHANGED <<viewerSeq, viewerVars, commReqVars, kernelVars, besidesComm>>

\* How DataSet::from_object may end for the object a viewer is given: Ok,
\* Err(UnexpectedType) for an object without names, or a panic of the
\* viewer's thread at the unwrap of a name that is NA.
BuildOutcomes == {"ok", "err", "panic"}

\* CommEvent::Opened(comm, json).
Opened(comm) == [kind |-> "Opened", comm |-> comm]

\* An execution_thread that announces the comm whether or not the data
\* set was built.
ViewerEvents_Always(comm, built) == <<Opened(comm)>>

\* RDataViewer::execution_thread: the events it sends on comm_manager_tx
\* for its comm. The `?` after from_object returns before the send when
\* the data set was not built.
ViewerEvents(comm, built) == IF built = "ok" THEN <<Opened(comm)>> ELSE <<>>

\* RDataViewer::start and the thread it spawns: a fresh id, a CommSocket
\* with initiator BackEnd and target positron.dataViewer, and, unless
\* building the data set fails, one CommEvent::Opened sent to the comm
\* manager, which enters the comm in its table if the event reaches it.
ViewerStart ==
    /\ Len(commCalls) + viewerSeq < MaxComms
    /\ viewerSeq' = viewerSeq + 1
    /\ \E built \in BuildOutcomes, delivered \in BOOLEAN :
         LET id == Uuid(viewerSeq + 1)
             comm == Comm(id, "positron.dataViewer", "BackEnd")
             events == ViewerEvents(comm, built)
         IN /\ viewers' = Append(viewers, [id |-> id, comm |-> comm, built |-> built])
            /\ commEvents' = commEvents \o events
            /\ comms' = IF delivered
                        THEN comms \o [k \in 1..Len(events) |-> events[k].comm]
                        ELSE comms
    /\ UNCHANGED <<commCalls, commWarns, commReqVars, kernelVars, besidesComm>>

\* comm_msg and comm-info requests handled during one run.
MaxCommReqs == 2

\* The comm_ids of the comms that are open: opened and not closed since.
OpenIds == {comms[k].comm_id : k \in (1..Len(comms)) \ commClosed}

\* The comm_ids that were open once and are open no more.
RetiredIds == {comms[k].comm_id : k \in commClosed} \ OpenIds

\* A comm_close, from either side, for a comm that is open: its entry is
\* removed.
CommClose ==
    /\ \E k \in (1..Len(comms)) \ commClosed : commClosed' = commClosed \cup {k}
    /\ UNCHANGED <<commCalls, comms, commWarns, viewerSeq, viewerVars, commMsgCalls,
                   commDelivered, commInfoCalls, kernelVars, besidesComm>>

\* The comm_ids a comm_msg may be addressed to.
CommMsgIds == FrontEndCommIds \cup {Uuid(1)}

\* One payload handed to the consumer of a comm.
Delivery(comm_id, data) == [comm_id |-> comm_id, data |-> data]

\* A handle_comm_msg that forwards every payload to a consumer.
CommMsgForward_Any(comm_id, data, open) == <<Delivery(comm_id, data)>>

\* ark's handle_comm_msg, "NYI": the payloads it forwards to a consumer
\* for a comm_msg to comm_id, which is or is not open: none.
CommMsgForward(comm_id, data, open) == <<>>

\* ark's handle_comm_msg for a comm_msg with the given comm_id: nothing is
\* looked up, forwarded or logged; the result is Ok(()).
HandleCommMsg ==
    /\ Len(commMsgCalls) + Len(commInfoCalls) < MaxCommReqs
    /\ \E comm_id \in CommMsgIds :
         /\ commMsgCalls' = Append(commMsgCalls,
                                   [comm_id |-> comm_id, open |-> comm_id \in OpenIds,
                                    retired |-> comm_id \in RetiredIds, result |-> "Ok"])
         /\ commDelivered' = commDelivered
                               \o CommMsgForward(comm_id, "data", comm_id \in OpenIds)
    /\ UNCHANGED <<commCalls, comms, commWarns, viewerSeq, viewerVars, commClosed,
                   commInfoCalls, kernelVars, besidesComm>>

\* The comms ark's handle_comm_info_request lists in its reply: always
\* the one entry LSP_COMM_ID: "Language Server Protocol".
CommInfoListed == {LSP_COMM_ID}

\* ark's handle_comm_info_request: the reply is Ok with the fixed list.
HandleCommInfo ==
    /\ Len(commMsgCalls) + Len(commInfoCalls) < MaxCommReqs
    /\ commInfoCalls' = Append(commInfoCalls,
                               [open |-> OpenIds, listed |-> CommInfoListed,
                                result |-> "Ok"])
    /\ UNCHANGED <<commCalls, comms, commWarns, viewerSeq, viewerVars, commClosed,
                   commMsgCalls, commDelivered, kernelVars, besidesComm>>

CommNext ==
    \/ HandleCommOpen
    \/ ViewerStart
    \/ CommClose
    \/ HandleCommMsg
    \/ HandleCommInfo

CommSpec == Init /\ [][CommNext]_vars

\* ------------------------------------------------- the codec on its own
AllTypes == Variants \cup OtherContentTypes

\* Typed messages of every variant of Message, as the kernel or a peer
\* would build them.
CodecTyped ==
    {[variant |-> v,
      msg |-> JupyterMessage(ids,
                HeaderCreate(<<"codec", 1>>, MessageType(v), KernelSession.session_id,
                             KernelSession.username),
                parent, Content(v, "", body))] :
        v \in Variants, ids \in {<<>>, <<"fe1">>},
        parent \in {NoHeader,
                    HeaderCreate(<<"fe", 1>>, MessageType("ExecuteRequest"),
                                 ClientSession.session_id, ClientSession.username)},
        body \in {"a", "b"}}

\* Signed wire messages carrying every known tag, and one unknown tag.
CodecRaw ==
    {Envelope(n, Good(t)) : n \in 1..2, t \in AllTypes}
    \cup {Envelope(n, Template(BogusTag, "Junk", KernelSession.key, FALSE, TRUE)) : n \in 1..2}

CodecInit ==
    /\ KernelInit
    /\ ArkInit
    /\ HbInit
    /\ CommInit
    /\ HelpInit
    /\ DapInit
    /\ VecOff
    /\ SubOff
    /\ cres = ErrV("", "")
    /\ \/ /\ cpc = "typed"
          /\ cmsg \in CodecTyped
          /\ cwire = ToWire(NoMessage, KernelSession.key)
       \/ /\ cpc = "raw"
          /\ cmsg = NoVariant
          /\ cwire \in CodecRaw

\* JupyterMessage::send up to the socket: the typed message becomes a
\* signed wire message.
CodecEncode ==
    /\ cpc = "typed"
    /\ cwire' = ToWire(cmsg.msg, KernelSession.key)
    /\ cpc' = "raw"
    /\ UNCHANGED <<cmsg, cres, kernelVars, besidesCodec>>

\* Message::read_from_socket on the wire message.
CodecClassify ==
    /\ cpc = "raw"
    /\ cres' = ReadFromSocket(cwire, KernelSession)
    /\ cpc' = "classified"
    /\ UNCHANGED <<cmsg, cwire, kernelVars, besidesCodec>>

CodecNext ==
    \/ CodecEncode
    \/ CodecClassify

CodecSpec == CodecInit /\ [][CodecNext]_vars

\* ------------------------------------------------------- the help comm
\* Requests of each kind sent to the help comm during one run.
MaxRpcs == 2

\* The identifier the sender gives its n-th RPC request.
RpcId(n) == <<"help-test-id", n>>

\* CommChannelMsg::Rpc(id, data)
Rpc(id, data) == [kind |-> "Rpc", id |-> id, data |-> data]

\* The topics asked for: one that has a help page and one that has none.
HelpTopics == {"library", "no.such.topic"}

\* The URLs shown: one that is not of the help server and one that is.
HelpUrls == {"https://www.example.com", "http://127.0.0.1/library/base/html/plot.html"}

\* RHelp::start(comm): the help comm's thread runs and takes messages.
HelpStart ==
    /\ helpPc = "unstarted"
    /\ helpPc' = "recv"
    /\ UNCHANGED <<helpRpcs, helpDone, helpOut, helpUrls, helpUrlOut, engineVars, dapVars,
                   vecVars, subVars>>

\* incoming_tx.send(CommChannelMsg::Rpc(request_id, data)) with a
\* ShowHelpTopicRequest as data.
HelpSendRpc ==
    /\ helpPc = "recv"
    /\ Len(helpRpcs) < MaxRpcs
    /\ \E topic \in HelpTopics :
         helpRpcs' = Append(helpRpcs,
                            Rpc(RpcId(Len(helpRpcs) + 1),
                                [msg_type |-> "ShowHelpTopicRequest", topic |-> topic]))
    /\ UNCHANGED <<helpPc, helpDone, helpOut, helpUrls, helpUrlOut, engineVars, dapVars,
                   vecVars, subVars>>

\* A comm that numbers its replies itself.
RpcReplyId_Own(request_id, n) == <<"help-reply", n>>

\* The identifier the comm gives the reply to the RPC request with the
\* identifier request_id, its n-th reply: the request's.
RpcReplyId(request_id, n) == request_id

\* The help comm takes the next Rpc message and answers it with one Rpc
\* message that holds a ShowHelpTopicReply.
HelpHandleRpc ==
    /\ helpPc = "recv"
    /\ helpDone < Len(helpRpcs)
    /\ LET req == helpRpcs[helpDone + 1]
       IN  helpOut' = Append(helpOut,
                             Rpc(RpcReplyId(req.id, Len(helpOut) + 1),
                                 [msg_type |-> "ShowHelpTopicReply",
                                  topic |-> req.data.topic]))
    /\ helpDone' = helpDone + 1
    /\ UNCHANGED <<helpPc, helpRpcs, helpUrls, helpUrlOut, engineVars, dapVars, vecVars, subVars>>

\* help_request_tx.send(HelpRequest::ShowHelpUrlRequest(url))
HelpSendUrl ==
    /\ helpPc = "recv"
    /\ Len(helpUrls) < MaxRpcs
    /\ \E url \in HelpUrls : helpUrls' = Append(helpUrls, url)
    /\ UNCHANGED <<helpPc, helpRpcs, helpDone, helpOut, helpUrlOut, engineVars, dapVars,
                   vecVars, subVars>>

\* The help comm answers the next ShowHelpUrlRequest with
\* ShowHelpUrlReply(handled): handled when the URL is the help server's.
HelpHandleUrl ==
    /\ helpPc = "recv"
    /\ Len(helpUrlOut) < Len(helpUrls)
    /\ helpUrlOut' = Append(helpUrlOut,
                            [handled |-> helpUrls[Len(helpUrlOut) + 1]
                                             # "https://www.example.com"])
    /\ UNCHANGED <<helpPc, helpRpcs, helpDone, helpOut, helpUrls, engineVars, dapVars,
                   vecVars, subVars>>

HelpNext ==
    \/ HelpStart
    \/ HelpSendRpc
    \/ HelpHandleRpc
    \/ HelpSendUrl
    \/ HelpHandleUrl

\* The help comm's thread runs whenever a message waits for it.
HelpSpec == Init /\ [][HelpNext]_vars /\ WF_vars(HelpHandleRpc)

\* ------------------------------------------------------- harp: Vector
\* The longest sequence a vector is created from.
MaxVecLen == 2

\* NumericVector, IntegerVector, CharacterVector
VecKinds == {"numeric", "integer", "character"}

\* The Rust values of each kind: f64 with a NaN and R's NA_real_, i32 with
\* R's NA_integer_, and &str, among them the text "NA".
ValuesOf(kind) ==
    CASE kind = "numeric" -> {"1.0", "2.0", "NaN", "NA_real_"}
      [] kind = "integer" -> {"1", "42", "NA_integer_"}
      [] kind = "character" -> {"hello", "world", "NA"}

\* The sequences over S of length n at most.
SeqsUpTo(S, n) == UNION {[1..k -> S] : k \in 0..n}

\* REALSXP, INTSXP, STRSXP
SexpType(kind) ==
    CASE kind = "numeric" -> "REALSXP"
      [] kind = "integer" -> "INTSXP"
      [] kind = "character" -> "STRSXP"

\* A CHARSXP made by Rf_mkCharLenCE, and R_NaString, the one CHARSXP that
\* stands for a missing string.
MkChar(s) == [chars |-> s, na |-> FALSE]
R_NaString == [chars |-> "NA", na |-> TRUE]

\* Option: Some(v) and None.
Some(v) == [some |-> TRUE, val |-> v]
None == [some |-> FALSE, val |-> ""]

\* What Iterator::next returns at the end: None of Option<Option<T>>.
IterEnd == [some |-> FALSE, val |-> None]

\* IsNa::is_na for f64 (R_IsNA), i32 (R_NaInt) and SEXP (R_NaString).
IsNa(kind, v) ==
    CASE kind = "numeric" -> v = "NA_real_"
      [] kind = "integer" -> v = "NA_integer_"
      [] kind = "character" -> v = R_NaString

\* Rf_allocVector: a string vector is filled with the empty string, the
\* elements of the others hold whatever the memory held.
AllocVector(type, size) ==
    [sexptype |-> type,
     elems |-> [i \in 1..size |-> IF type = "STRSXP" THEN MkChar("") ELSE "uninit"]]

\* pointer.copy_from(src, count)
CopyFrom(dst, src, count) == [i \in 1..Len(dst) |-> IF i <= count THEN src[i] ELSE dst[i]]

\* A create that fills all elements but the last.
VectorCreate_Short(kind, data) ==
    LET vector == AllocVector(SexpType(kind), Len(data))
        n == IF Len(data) = 0 THEN 0 ELSE Len(data) - 1
    IN  IF kind = "character"
        THEN [vector EXCEPT !.elems = CopyFrom(vector.elems,
                                               [i \in 1..Len(data) |-> MkChar(data[i])], n)]
        ELSE [vector EXCEPT !.elems = CopyFrom(vector.elems, data, n)]

\* Vector::create and CharacterVector::create: a vector of the length of
\* the data, every element copied, or set to the CHARSXP of the string.
VectorCreate(kind, data) ==
    LET vector == AllocVector(SexpType(kind), Len(data))
    IN  IF kind = "character"
        THEN [vector EXCEPT !.elems = [i \in 1..Len(data) |-> MkChar(data[i])]]
        ELSE [vector EXCEPT !.elems = CopyFrom(vector.elems, data, Len(data))]

\* Vector::len: Rf_length
VecLen(obj) == Len(obj.elems)

\* Vector::get_unchecked and CharacterVector::get_unchecked, for an index
\* inside the vector (counted from 0).
GetUnchecked(kind, obj, index) ==
    LET x == obj.elems[index + 1]
    IN  IF IsNa(kind, x) THEN None
        ELSE IF kind = "character" THEN Some(x.chars)
        ELSE Some(x)

\* VectorIterator::next over the slice, CharacterVectorIterator::next with
\* its index and size; pos elements have been returned before.
IterNext(kind, obj, pos) ==
    IF kind = "character"
    THEN IF pos = VecLen(obj) THEN IterEnd ELSE Some(GetUnchecked(kind, obj, pos))
    ELSE IF pos >= VecLen(obj) THEN IterEnd
         ELSE IF IsNa(kind, obj.elems[pos + 1]) THEN Some(None)
         ELSE Some(Some(obj.elems[pos + 1]))

\* `!=` of the native type: a NaN, and NA_real_ is one, differs from
\* every f64, itself included.
NativeNe(kind, a, b) ==
    IF kind = "numeric" THEN a # b \/ a \in {"NaN", "NA_real_"} \/ b \in {"NaN", "NA_real_"}
    ELSE a # b

\* PartialEq for Vector and for CharacterVector.
VectorEq(kind, obj, other) ==
    IF VecLen(obj) # Len(other) THEN FALSE
    ELSE IF kind = "character"
    THEN \A i \in 1..VecLen(obj) : ~(GetUnchecked(kind, obj, i - 1) # Some(other[i]))
    ELSE \A i \in 1..VecLen(obj) : ~NativeNe(kind, obj.elems[i], other[i])

\* The values a vector is created from: any kind, any values of the kind.
VecInit ==
    /\ EngineInit
    /\ HelpInit
    /\ DapInit
    /\ SubOff
    /\ vecPc = "input"
    /\ \E kind \in VecKinds :
          /\ vecKind = kind
          /\ vecData \in SeqsUpTo(ValuesOf(kind), MaxVecLen)
    /\ vecObj = NoObject
    /\ vecGot = <<>>
    /\ vecYield = <<>>
    /\ vecEq = "unset"
    /\ vecTried = NoTry

\* let vector = Vector::create(data)
VecCreate ==
    /\ vecPc = "input"
    /\ vecObj' = VectorCreate(vecKind, vecData)
    /\ vecPc' = "created"
    /\ UNCHANGED <<vecKind, vecData, vecGot, vecYield, vecEq, vecTried, engineVars, dapVars, helpVars,
                   subVars>>

\* vector.get_unchecked(index) for an index below vector.len()
VecGet ==
    /\ vecPc = "created"
    /\ \E index \in 0..(VecLen(vecObj) - 1) :
         /\ \A g \in 1..Len(vecGot) : vecGot[g].index # index
         /\ vecGot' = Append(vecGot, [index |-> index,
                                      value |-> GetUnchecked(vecKind, vecObj, index)])
    /\ UNCHANGED <<vecPc, vecKind, vecData, vecObj, vecYield, vecEq, vecTried, engineVars, dapVars,
                   helpVars, subVars>>

\* it.next() on vector.iter(), until it has returned None once.
VecIterNext ==
    /\ vecPc = "created"
    /\ Len(vecYield) <= VecLen(vecObj)
    /\ vecYield' = Append(vecYield, IterNext(vecKind, vecObj, Len(vecYield)))
    /\ UNCHANGED <<vecPc, vecKind, vecData, vecObj, vecGot, vecEq, vecTried, engineVars, dapVars, helpVars,
                   subVars>>

\* vector == data
VecCompare ==
    /\ vecPc = "created"
    /\ vecEq = "unset"
    /\ vecEq' = IF VectorEq(vecKind, vecObj, vecData) THEN "true" ELSE "false"
    /\ UNCHANGED <<vecPc, vecKind, vecData, vecObj, vecGot, vecYield, vecTried, engineVars,
                   dapVars, helpVars, subVars>>

\* An index as its four 16-bit limbs, the most significant first: an
\* isize for Vector::get, a usize for CharacterVector::get, 64 bits wide.
Limb == 65536

\* The indices get is called with: 0 to 3, 2^16, 2^31, 2^32, 2^32 + 1,
\* -2^32 (as a usize 2^64 - 2^32) and -1 (as a usize 2^64 - 1).
TryIndices ==
    {<<0, 0, 0, 0>>, <<0, 0, 0, 1>>, <<0, 0, 0, 2>>, <<0, 0, 0, 3>>, <<0, 0, 1, 0>>,
     <<0, 0, 32768, 0>>, <<0, 1, 0, 0>>, <<0, 1, 0, 1>>,
     <<Limb - 1, Limb - 1, 0, 0>>, <<Limb - 1, Limb - 1, Limb - 1, Limb - 1>>}

\* The index is at least 0 and below len.
InRange(index, len) == index[1] = 0 /\ index[2] = 0 /\ index[3] = 0 /\ index[4] < len

\* `index as u32`: the low 32 bits.
AsU32(index) == <<index[3], index[4]>>

\* a < b for two u32 given by their limbs.
U32Less(a, b) == a[1] < b[1] \/ (a[1] = b[1] /\ a[2] < b[2])

\* r_assert_capacity(object, required): the results it may have. It is
\* Err when the length is below what is required and Ok when it is above;
\* when the two are equal, either.
CapacityOutcomes(obj, required) ==
    LET actual == <<VecLen(obj) \div Limb, VecLen(obj) % Limb>>
    IN  IF U32Less(actual, required) THEN {FALSE}
        ELSE IF U32Less(required, actual) THEN {TRUE}
        ELSE {TRUE, FALSE}

\* What a read of one element's width outside the vector's data may give:
\* any value of the kind, or None for the bits of a missing value.
OutsideReads(kind) ==
    {None} \cup {Some(v) : v \in ValuesOf(kind) \ {"NA_real_", "NA_integer_"}}

\* vector.get(index): r_assert_capacity(self.data(), index as u32)? and
\* then get_unchecked(index), which reads the element at the index
\* whether or not the vector has one there.
VecTryGet ==
    /\ vecPc = "created"
    /\ vecTried = NoTry
    /\ \E index \in TryIndices :
         \E ok \in CapacityOutcomes(vecObj, AsU32(index)) :
            IF ~ok
            THEN vecTried' = [index |-> index, ok |-> FALSE, read |-> "none", value |-> None]
            ELSE IF InRange(index, VecLen(vecObj))
            THEN vecTried' = [index |-> index, ok |-> TRUE, read |-> "inside",
                              value |-> GetUnchecked(vecKind, vecObj, index[4])]
            ELSE \E v \in OutsideReads(vecKind) :
                    vecTried' = [index |-> index, ok |-> TRUE, read |-> "outside",
                                 value |-> v]
    /\ UNCHANGED <<vecPc, vecKind, vecData, vecObj, vecGot, vecYield, vecEq, engineVars,
                   dapVars, helpVars, subVars>>

VecNext ==
    \/ VecCreate
    \/ VecGet
    \/ VecIterNext
    \/ VecCompare
    \/ VecTryGet

VecSpec == VecInit /\ [][VecNext]_vars

\* ----------------------------------------- LSP: completions_from_subset
\* The most nodes from the cursor's node up to the root.
MaxDepth == 3

\* The last column the cursor may be at.
MaxCol == 7

\* NodeType::Subset and NodeType::Subset2: `x[` and `x[[`.
SubsetTypes == {"Subset", "Subset2"}

\* The width of the delimiters of a subset node.
DelimWidth(type) == IF type = "Subset2" THEN 2 ELSE 1

\* A node: its type and, for a subset node, the columns at which its
\* opening and its closing delimiter begin.
Node(type, open, close) == [type |-> type, open |-> open, close |-> close]

\* The nodes of a document: subset nodes with their delimiters apart or
\* not, braced expressions, and nodes of any other type.
Nodes ==
    {Node(t, o, o + DelimWidth(t) + gap) : t \in SubsetTypes, o \in 1..2, gap \in 0..1}
    \cup {Node("BracedExpression", 0, 0), Node("Identifier", 0, 0)}

\* is_within_subset_delimiters: the point is neither before the end of
\* the opening delimiter nor after the start of the closing one.
IsWithinSubsetDelimiters(point, node) ==
    /\ point >= node.open + DelimWidth(node.type)
    /\ point <= node.close

\* A walk that goes on past braces.
BailsAt_Never(node) == FALSE

\* node.is_braced_expression(): "If we reach a brace list, bail."
BailsAt(node) == node.type = "BracedExpression"

\* A document context: the node at the cursor with its ancestors, and the
\* cursor's column.
SubInit ==
    /\ EngineInit
    /\ HelpInit
    /\ DapInit
    /\ VecOff
    /\ subPc = "walk"
    /\ subPath \in UNION {[1..k -> Nodes] : k \in 1..MaxDepth}
    /\ subPoint \in 0..MaxCol
    /\ subAt = 1
    /\ subNeeds = FALSE
    /\ subResult = "unset"

\* One turn of the loop of completions_from_subset: stop at a subset node
\* with needs_completions set, stop at a braced expression, or go to the
\* parent; stop when there is none.
SubWalk ==
    /\ subPc = "walk"
    /\ LET node == subPath[subAt]
       IN  IF node.type \in SubsetTypes
           THEN subNeeds' = TRUE /\ subPc' = "decide" /\ UNCHANGED subAt
           ELSE IF BailsAt(node)
           THEN subPc' = "decide" /\ UNCHANGED <<subNeeds, subAt>>
           ELSE IF subAt < Len(subPath)
           THEN subAt' = subAt + 1 /\ UNCHANGED <<subNeeds, subPc>>
           ELSE subPc' = "decide" /\ UNCHANGED <<subNeeds, subAt>>
    /\ UNCHANGED <<subPath, subPoint, subResult, engineVars, dapVars, helpVars, vecVars>>

\* completions_from_subset after the loop: None without a subset node or
\* with the point outside its delimiters; an empty list when the node has
\* no child; else whatever evaluating the object's names gives.
SubDecide ==
    /\ subPc = "decide"
    /\ IF ~subNeeds
       THEN subResult' = "None"
       ELSE IF ~IsWithinSubsetDelimiters(subPoint, subPath[subAt])
       THEN subResult' = "None"
       ELSE \E child \in BOOLEAN, names \in {"SomeNames", "None", "Err"} :
              subResult' = IF ~child THEN "SomeEmpty" ELSE names
    /\ subPc' = "done"
    /\ UNCHANGED <<subPath, subPoint, subAt, subNeeds, engineVars, dapVars, helpVars, vecVars>>

SubNext ==
    \/ SubWalk
    \/ SubDecide

SubsetSpec == SubInit /\ [][SubNext]_vars

\* ------------------------------------------------ the DAP server thread
\* Clients that connect during one run.
MaxClients == 2

\* Messages the clients send during one run.
MaxDapReqs == 3

\* The commands serve has a handler for.
HandledCommands ==
    {"Initialize", "Attach", "Threads", "SetExceptionBreakpoints", "StackTrace"}

\* A command of the protocol that serve has no handler for.
OtherCommands == {"Next"}

\* What a client may write to its connection: a request with one of the
\* protocol's commands, or bytes that are no request.
ClientItems == HandledCommands \cup OtherCommands \cup {"Malformed"}

\* DapState.stack: None or Some of frames.
Stacks == {NoStack, "Frames"}

\* The event a handler sends after its response.
EventOf(command) ==
    CASE command = "Initialize" -> "Initialized"
      [] command = "Attach" -> "Stopped"
      [] OTHER -> ""

\* handle_stacktrace: the frames of the response, an empty vector unless
\* the stack is Some of at least one frame.
StackFrames(stack) == IF stack = "Frames" THEN "Frames" ELSE "Empty"

\* Handlers that write no response, only their event.
ResponsesTo_ErrorsOnly(session, req, stack) ==
    IF req.command \in HandledCommands
    THEN <<>>
    ELSE <<[kind |-> "response", session |-> session, seq |-> req.seq,
            command |-> req.command, success |-> FALSE, body |-> ""]>>

\* The responses serve writes for a request: req.success(..) in the five
\* handlers, req.error("Ark DAP: Unknown request") for any other command.
ResponsesTo(session, req, stack) ==
    <<[kind |-> "response", session |-> session, seq |-> req.seq,
       command |-> req.command, success |-> req.command \in HandledCommands,
       body |-> IF req.command = "StackTrace" THEN StackFrames(stack) ELSE ""]>>

\* Event::Initialized, Event::Stopped.
DapEvent(session, req) ==
    [kind |-> "event", session |-> session, seq |-> req.seq, command |-> req.command,
     success |-> TRUE, body |-> EventOf(req.command)]

\* One call of serve and how it ended: returned true, returned false, or
\* never returned because an unwrap panicked.
Served(session, seq, returned) == [session |-> session, seq |-> seq, returned |-> returned]

\* Whether a write to the client succeeds: it does while the connection is
\* open; once the client is gone the event loop thread may or may not
\* still take what is written.
WriteOutcomes == IF dapConn = "open" THEN {TRUE} ELSE {TRUE, FALSE}

\* start_dap: TcpListener::bind(tcp_address).unwrap().
DapBind ==
    /\ dapPc = "start"
    /\ \E ok \in BOOLEAN :
         IF ok
         THEN dapBinds' = dapBinds + 1 /\ dapPc' = "accept"
         ELSE dapBinds' = dapBinds /\ dapPc' = "dead"
    /\ UNCHANGED <<dapSession, dapReq, dapOut, dapServes, dapStarts,
                   dapDisconnects, dapClientVars, dapStateVars, engineVars, helpVars,
                   vecVars, subVars>>

\* A client connects to the listener and waits to be accepted.
ClientConnect ==
    /\ dapBinds > 0
    /\ dapConnects < MaxClients
    /\ dapConnects' = dapConnects + 1
    /\ dapWaiting' = dapWaiting + 1
    /\ UNCHANGED <<dapConn, dapIn, dapSent, dapThreadVars, dapStateVars, engineVars,
                   helpVars, vecVars, subVars>>

\* The client that is being served writes a message.
ClientSend ==
    /\ dapConn = "open"
    /\ dapSent < MaxDapReqs
    /\ dapSent' = dapSent + 1
    /\ \E c \in ClientItems : dapIn' = Append(dapIn, [seq |-> dapSent + 1, command |-> c])
    /\ UNCHANGED <<dapWaiting, dapConnects, dapConn, dapThreadVars, dapStateVars,
                   engineVars, helpVars, vecVars, subVars>>

\* The client that is being served closes its connection.
ClientDisconnect ==
    /\ dapConn = "open"
    /\ dapConn' = "closed"
    /\ UNCHANGED <<dapWaiting, dapConnects, dapIn, dapSent, dapThreadVars, dapStateVars,
                   engineVars, helpVars, vecVars, subVars>>

\* listener.accept() returns a client's stream: an event loop thread is
\* spawned for it and a new DapServer made over the shared state. A failed
\* accept is logged and tried again, which changes nothing here.
DapAccept ==
    /\ dapPc = "accept"
    /\ dapWaiting > 0
    /\ dapWaiting' = dapWaiting - 1
    /\ dapSession' = dapSession + 1
    /\ dapConn' = "open"
    /\ dapIn' = <<>>
    /\ dapStarts' = Append(dapStarts,
                           [session |-> dapSession + 1, debugging |-> dapDebugging,
                            epoch |-> dapDbgEpoch, disconnects |-> dapDisconnects,
                            binds |-> dapBinds])
    /\ dapPc' = "poll"
    /\ UNCHANGED <<dapBinds, dapReq, dapOut, dapServes, dapDisconnects,
                   dapConnects, dapSent, dapStateVars, engineVars, helpVars, vecVars,
                   subVars>>

\* serve up to the end of its match on poll_request().unwrap(): a request
\* is taken to its handler; None, the client having disconnected, makes
\* serve return false; an Err, for bytes that are no request, panics.
DapPoll ==
    /\ dapPc = "poll"
    /\ IF dapIn # <<>>
       THEN /\ dapIn' = Tail(dapIn)
            /\ IF Head(dapIn).command = "Malformed"
               THEN /\ dapPc' = "dead"
                    /\ dapServes' = Append(dapServes,
                                           Served(dapSession, Head(dapIn).seq, "panic"))
                    /\ UNCHANGED dapReq
               ELSE /\ dapPc' = "respond"
                    /\ dapReq' = Head(dapIn)
                    /\ UNCHANGED dapServes
       ELSE /\ dapConn = "closed"
            /\ dapPc' = "clear"
            /\ dapServes' = Append(dapServes, Served(dapSession, 0, "false"))
            /\ UNCHANGED <<dapIn, dapReq>>
    /\ UNCHANGED <<dapBinds, dapSession, dapOut, dapStarts, dapDisconnects,
                   dapWaiting, dapConnects, dapConn, dapSent, dapStateVars, engineVars,
                   helpVars, vecVars, subVars>>

\* The handler's self.server.respond(rsp).unwrap(), and the end of serve
\* for the handlers that send no event: serve returns true.
DapRespond ==
    /\ dapPc = "respond"
    /\ \E ok \in WriteOutcomes :
         IF ok
         THEN /\ dapOut' = dapOut \o ResponsesTo(dapSession, dapReq, dapStack)
              /\ IF EventOf(dapReq.command) # ""
                 THEN dapPc' = "event" /\ UNCHANGED <<dapReq, dapServes>>
                 ELSE /\ dapPc' = "poll"
                      /\ dapReq' = NoDapReq
                      /\ dapServes' = Append(dapServes,
                                             Served(dapSession, dapReq.seq, "true"))
         ELSE /\ dapPc' = "dead"
              /\ dapServes' = Append(dapServes, Served(dapSession, dapReq.seq, "panic"))
              /\ UNCHANGED <<dapOut, dapReq>>
    /\ UNCHANGED <<dapBinds, dapSession, dapStarts, dapDisconnects,
                   dapClientVars, dapStateVars, engineVars, helpVars, vecVars, subVars>>

\* handle_initialize's and handle_attach's self.server.send_event(..)
\* .unwrap(), and the end of serve: it returns true.
DapSendEvent ==
    /\ dapPc = "event"
    /\ \E ok \in WriteOutcomes :
         IF ok
         THEN /\ dapOut' = Append(dapOut, DapEvent(dapSession, dapReq))
              /\ dapPc' = "poll"
              /\ dapReq' = NoDapReq
              /\ dapServes' = Append(dapServes, Served(dapSession, dapReq.seq, "true"))
         ELSE /\ dapPc' = "dead"
              /\ dapServes' = Append(dapServes, Served(dapSession, dapReq.seq, "panic"))
              /\ UNCHANGED <<dapOut, dapReq>>
    /\ UNCHANGED <<dapBinds, dapSession, dapStarts, dapDisconnects,
                   dapClientVars, dapStateVars, engineVars, helpVars, vecVars, subVars>>

\* A start_dap that leaves the shared state as it is on a disconnect.
DisconnectDebugging_Kept(debugging) == debugging

\* start_dap after serve returned false: state.lock().unwrap().debugging
\* = false.
DisconnectDebugging(debugging) == FALSE

\* start_dap after serve returned false: the flag is written, the inner
\* loop is left, the server and its streams are dropped and the outer loop
\* goes back to accept.
DapClear ==
    /\ dapPc = "clear"
    /\ dapDebugging' = DisconnectDebugging(dapDebugging)
    /\ dapDisconnects' = dapDisconnects + 1
    /\ dapConn' = "none"
    /\ dapIn' = <<>>
    /\ dapPc' = "accept"
    /\ UNCHANGED <<dapBinds, dapSession, dapReq, dapOut, dapServes,
                   dapStarts, dapWaiting, dapConnects, dapSent, dapStack, dapDbgEpoch,
                   engineVars, helpVars, vecVars, subVars>>

\* The R side of the shared state: R enters the browser, which sets
\* debugging and the stack, or leaves it, which clears them.
RDebug ==
    /\ \E d \in BOOLEAN, stack \in Stacks :
         /\ d <=> stack # NoStack
         /\ <<d, stack>> # <<dapDebugging, dapStack>> \/ (d /\ dapDbgEpoch # dapDisconnects)
         /\ dapDebugging' = d
         /\ dapStack' = stack
         /\ dapDbgEpoch' = IF d THEN dapDisconnects ELSE dapDbgEpoch
    /\ UNCHANGED <<dapThreadVars, dapClientVars, engineVars, helpVars, vecVars, subVars>>

\* One step of the DAP thread.
DapThreadStep ==
    \/ DapBind
    \/ DapAccept
    \/ DapPoll
    \/ DapRespond
    \/ DapSendEvent
    \/ DapClear

DapNext ==
    \/ DapBind
    \/ ClientConnect
    \/ ClientSend
    \/ ClientDisconnect
    \/ DapAccept
    \/ DapPoll
    \/ DapRespond
    \/ DapSendEvent
    \/ DapClear
    \/ RDebug

DapSpec == Init /\ [][DapNext]_vars

\* The DAP thread is scheduled whenever it can take a step.
DapFairSpec == DapSpec /\ WF_vars(DapThreadStep)

\* ----------------------------------------------------- reading the logs
\* The envelopes the Shell loop handed to handle_request, in order.
Dispatched == SelectSeq(reads, LAMBDA r : r.chan = "shell" /\ r.ok)

\* The request of the i-th dispatched envelope has left handle_request.
Done(i) == i < Len(Dispatched) \/ (i = Len(Dispatched) /\ shellPc = "wait")

\* The execution states enqueued for broadcast with parent header h.
StatesFor(h) ==
    LET evs == SelectSeq(iopubQ, LAMBDA ev : ev.kind = "Status" /\ ev.parent = h)
    IN  [i \in 1..Len(evs) |-> evs[i].state]

\* The wire messages on the Shell socket whose parent header is h.
RepliesFor(h) == SelectSeq(shellOut, LAMBDA w : w.parent_header = h)

\* The handler invocations made for the request with header h.
CallsFor(h) == SelectSeq(calls, LAMBDA c : c.req.header = h)

\* ------------------------------------------------------------------ C1
\* C1: for every request the Shell loop dispatched to a handler and that
\* has left handle_request, the statuses enqueued for broadcast with the
\* request's header as parent are exactly one Busy followed by exactly one
\* Idle, whatever the handler returned and whether or not the reply was
\* sent.
C1_BusyIdleBracket ==
    \A i \in 1..Len(Dispatched) :
        Done(i) => StatesFor(Dispatched[i].env.header) = <<"busy", "idle">>

\* ------------------------------------------------------------------ C2
\* C2: every reply and every error reply built for a request has as its
\* parent header the header of that request exactly as the front end sent
\* it, and carries it unchanged onto the wire.
C2_ReplyParentIsRequestHeader ==
    /\ Len(calls) <= Len(Dispatched)
    /\ \A i \in 1..Len(calls) :
         \A j \in 1..Len(calls[i].replies) :
            /\ calls[i].replies[j].parent_header = Dispatched[i].env.header
            /\ calls[i].sent =>
                 \E k \in 1..Len(shellOut) :
                    /\ shellOut[k].header = calls[i].replies[j].header
                    /\ shellOut[k].parent_header = Dispatched[i].env.header

\* A reply built with create_reply and an error reply built with
\* error_reply both exist.
C2_Witness ==
    /\ \E i \in 1..Len(calls) : calls[i].outcome = "ok" /\ calls[i].replies # <<>>
    /\ \E i \in 1..Len(calls) :
         /\ calls[i].outcome = "err"
         /\ calls[i].variant # "ExecuteRequest"
         /\ calls[i].replies # <<>>

\* ------------------------------------------------------------------ C3
\* C3: every message the kernel builds (with create on the IOPub thread,
\* with create_reply or error_reply on the Shell and Control threads) has
\* the kernel Session's id as the session of its header, also when the
\* request it answers came with another session id.
C3_OutgoingSessionIsKernel ==
    /\ \A i \in 1..Len(calls) :
         \A j \in 1..Len(calls[i].replies) :
            calls[i].replies[j].header.session = KernelSession.session_id
    /\ \A k \in 1..Len(shellOut) : shellOut[k].header.session = KernelSession.session_id
    /\ \A k \in 1..Len(ctlOut) : ctlOut[k].header.session = KernelSession.session_id
    /\ \A k \in 1..Len(pubOut) : pubOut[k].header.session = KernelSession.session_id

\* A reply, an error reply and a published status exist, each for a request
\* whose own header names the front end's session.
C3_Witness ==
    /\ \E i \in 1..Len(calls) :
         /\ calls[i].outcome = "ok"
         /\ calls[i].replies # <<>>
         /\ calls[i].req.header.session # KernelSession.session_id
    /\ \E i \in 1..Len(calls) :
         /\ calls[i].outcome = "err"
         /\ calls[i].replies # <<>>
         /\ calls[i].req.header.session # KernelSession.session_id
    /\ \E k \in 1..Len(pubOut) :
         pubOut[k].parent_header.session # KernelSession.session_id

\* ------------------------------------------------------------------ C4
\* C4 as stated: every request that was dispatched and has left
\* handle_request has exactly one reply on the Shell socket.
C4_ExactlyOneReplyOnSocket ==
    \A i \in 1..Len(Dispatched) :
        Done(i) => Len(RepliesFor(Dispatched[i].env.header)) = 1

\* The content a handler's reply must have for the outcome it reported.
ExpectedContent(c, content) ==
    IF c.outcome = "ok"
    THEN content.schema = ReplyType(c.variant) /\ content.status # "error"
    ELSE content.status = "error" /\ content.body = Exception

\* C4 as amended: every dispatched request gets exactly one handler call
\* and exactly one reply send; the reply carries the handler's content when
\* the handler succeeded and the reported exception with status error when
\* it failed; the Shell socket carries that one reply when the send
\* succeeded and no reply for the request when the send failed; never two.
C4_OneReplySend ==
    \A i \in 1..Len(Dispatched) :
        LET h == Dispatched[i].env.header
            cs == CallsFor(h)
        IN  /\ Len(cs) <= 1
            /\ Done(i) => Len(cs) = 1
            /\ Len(cs) = 0 => RepliesFor(h) = <<>>
            /\ Len(cs) = 1 =>
                 /\ Len(cs[1].replies) = 1
                 /\ ExpectedContent(cs[1], cs[1].replies[1].content)
                 /\ RepliesFor(h) = IF cs[1].sent
                                    THEN <<ToWire(cs[1].replies[1], KernelSession.key)>>
                                    ELSE <<>>

\* One finished request whose handler succeeded and one whose handler
\* failed, both with their reply on the socket.
C4_Witness ==
    /\ \E i \in 1..Len(Dispatched) :
         /\ Done(i)
         /\ \E c \in 1..Len(calls) :
              calls[c].req.header = Dispatched[i].env.header
              /\ calls[c].outcome = "ok" /\ calls[c].sent
    /\ \E i \in 1..Len(Dispatched) :
         /\ Done(i)
         /\ \E c \in 1..Len(calls) :
              calls[c].req.header = Dispatched[i].env.header
              /\ calls[c].outcome = "err" /\ calls[c].sent

\* ------------------------------------------------------------------ C5
\* The signature an envelope carries is the keyed hash of its frames under
\* the Session's secret.
SignatureVerifies(env) ==
    env.signature = Hmac(KernelSession.key, env.header, env.parent_header, env.content)

\* Nothing was done for the message with header h: no handler call, no
\* reply on either socket, no status event.
NoEffect(h) ==
    /\ CallsFor(h) = <<>>
    /\ RepliesFor(h) = <<>>
    /\ StatesFor(h) = <<>>
    /\ \A k \in 1..Len(ctlOut) : ctlOut[k].parent_header # h
    /\ shellReq.msg.header # h

\* C5: an envelope read on the Shell or Control socket whose signature does
\* not verify is dropped: the read fails, and no handler call, reply or
\* status event is ever made for it.
C5_UnverifiedDropped ==
    \A i \in 1..Len(reads) :
        (reads[i].env.framed /\ ~SignatureVerifies(reads[i].env)) =>
            /\ ~reads[i].ok
            /\ reads[i].kind = "BadSignature"
            /\ NoEffect(reads[i].env.header)

\* An envelope with a bad signature has been read on the Shell socket and
\* another on the Control socket.
C5_Witness ==
    /\ \E i \in 1..Len(reads) :
         reads[i].chan = "shell" /\ ~SignatureVerifies(reads[i].env)
    /\ \E i \in 1..Len(reads) :
         reads[i].chan = "control" /\ ~SignatureVerifies(reads[i].env)

\* ------------------------------------------------------------------ C6
\* The well-formed, correctly signed requests the front end can send as its
\* n-th message.
ValidRequests(n) == {Envelope(n, Good(t)) : t \in ShellRequests}

\* The Shell loop has logged a failed read.
ShellReadFailed == \E i \in 1..Len(reads) : reads[i].chan = "shell" /\ ~reads[i].ok

\* The handler ran for the front end's n-th message and its reply was
\* handed to the socket.
Answered(n) == \E c \in 1..Len(calls) : calls[c].req.header.msg_id = <<"fe", n>>

\* C6: a failed read does not end the Shell loop: whenever the loop has had
\* read failures and a valid request is next on the socket, that request is
\* eventually received, dispatched and answered.
C6_LoopSurvivesFailures ==
    \A n \in 1..MaxMsgs :
        (ShellReadFailed /\ inbox # <<>> /\ Head(inbox) \in ValidRequests(n))
            ~> (Answered(n) /\ Done(Len(Dispatched)))

\* A request was answered after an earlier read on the Shell socket failed.
C6_Witness ==
    \E i, j \in 1..Len(reads) :
        /\ i < j
        /\ reads[i].chan = "shell" /\ ~reads[i].ok
        /\ reads[i].kind \in {"BadSignature", "InvalidMessage"}
        /\ reads[j].chan = "shell" /\ reads[j].ok
        /\ CallsFor(reads[j].env.header) # <<>>
        /\ shellPc = "wait"

\* ------------------------------------------------------------------ C7
\* The catalog as the specification lists it: tag -> variant.
CatalogVariant(tag) ==
    CASE tag = "kernel_info_request" -> "KernelInfoRequest"
      [] tag = "kernel_info_reply" -> "KernelInfoReply"
      [] tag = "execute_request" -> "ExecuteRequest"
      [] tag = "execute_reply" -> "ExecuteReply"
      [] tag = "execute_result" -> "ExecuteResult"
      [] tag = "error" -> "ExecuteError"
      [] tag = "execute_input" -> "ExecuteInput"
      [] tag = "complete_request" -> "CompleteRequest"
      [] tag = "complete_reply" -> "CompleteReply"
      [] tag = "is_complete_request" -> "IsCompleteRequest"
      [] tag = "is_complete_reply" -> "IsCompleteReply"
      [] tag = "comm_info_request" -> "CommInfoRequest"
      [] tag = "comm_info_reply" -> "CommInfoReply"
      [] tag = "comm_open" -> "CommOpen"
      [] tag = "comm_msg" -> "CommMsg"
      [] tag = "comm_close" -> "CommClose"
      [] tag = "shutdown_request" -> "ShutdownRequest"
      [] tag = "status" -> "Status"
      [] OTHER -> "none"

\* C7: classification is total over the catalog: a raw message carrying a
\* catalog kind's tag (and that kind's content) classifies to exactly that
\* variant, and a raw message with any other tag fails.
C7_ClassificationTotal ==
    (cpc = "classified" /\ cmsg = NoVariant) =>
        LET tag == cwire.header.msg_type
        IN  IF CatalogVariant(tag) = "none"
            THEN ~cres.ok
            ELSE cwire.content.schema = CatalogVariant(tag) =>
                    (cres.ok /\ cres.val.variant = CatalogVariant(tag))

\* ------------------------------------------------------------------ C8
\* The tags of the variants of Message.
CatalogTags == {MessageType(v) : v \in Variants}

\* C8: a readable, correctly signed message whose tag matches no variant of
\* the catalog fails classification with UnknownMessageType carrying that
\* tag; it is never dispatched and nothing is done for it.
C8_UnknownTagFails ==
    \A i \in 1..Len(reads) :
        LET e == reads[i].env
        IN  (e.framed /\ SignatureVerifies(e) /\ e.header.msg_type \notin CatalogTags) =>
                /\ ~reads[i].ok
                /\ reads[i].kind = "UnknownMessageType"
                /\ reads[i].arg = e.header.msg_type
                /\ NoEffect(e.header)

\* The Shell loop has read a correctly signed message with an unknown tag.
C8_Witness ==
    \E i \in 1..Len(reads) :
        /\ reads[i].chan = "shell"
        /\ reads[i].env.framed
        /\ SignatureVerifies(reads[i].env)
        /\ reads[i].env.header.msg_type = BogusTag

\* ------------------------------------------------------------------ C9
\* C9: round trip: encoding a message of any kind of the catalog and then
\* decoding and classifying the wire message yields the same variant with
\* the same header, parent header and content.
C9_RoundTrip ==
    (cpc = "classified" /\ cmsg # NoVariant
        /\ cmsg.variant = CatalogVariant(cmsg.msg.header.msg_type)) =>
            (cres.ok /\ cres.val = cmsg)

\* ----------------------------------------------------------------- C10
\* C10: the reply sent when a handler reports a failure carries the type
\* tag of the request's successful reply type, not a tag of its own, and a
\* content with status error and the reported exception.
C10_ErrorReplyUsesReplyTag ==
    \A c \in 1..Len(calls) :
        calls[c].outcome = "err" =>
            \A j \in 1..Len(calls[c].replies) :
                LET reply == calls[c].replies[j]
                IN  /\ reply.header.msg_type = MessageType(ReplyType(calls[c].variant))
                    /\ reply.content.status = "error"
                    /\ reply.content.body = Exception

\* An error reply to an is-complete request has been built.
C10_Witness ==
    \E c \in 1..Len(calls) :
        /\ calls[c].outcome = "err"
        /\ calls[c].variant = "IsCompleteRequest"
        /\ calls[c].replies # <<>>

\* ----------------------------------------------------------------- C11
\* The envelope reads and classifies, but to a kind process_message has no
\* arm for.
Unrouted(e) ==
    /\ ReadFromSocket(e, KernelSession).ok
    /\ ReadFromSocket(e, KernelSession).val.variant \notin ShellRequests

\* The i-th read is the Shell loop's most recent one.
LastShellRead(i) ==
    /\ reads[i].chan = "shell"
    /\ \A j \in (i + 1)..Len(reads) : reads[j].chan # "shell"

\* C11: a message the Shell loop decoded successfully but has no handler
\* method for is reported as UnsupportedMessage naming the channel "shell";
\* no handler call, reply or status is made for it, and the loop is back at
\* its receive, ready for the next message.
C11_UnsupportedOnShell ==
    \A i \in 1..Len(reads) :
        (reads[i].chan = "shell" /\ Unrouted(reads[i].env)) =>
            /\ ~reads[i].ok
            /\ reads[i].kind = "UnsupportedMessage"
            /\ reads[i].arg = "shell"
            /\ NoEffect(reads[i].env.header)
            /\ LastShellRead(i) => shellPc = "wait"

\* A kernel-info reply arrived as if it were a request, and the request
\* that came after it was dispatched and answered.
C11_Witness ==
    \E i, j \in 1..Len(reads) :
        /\ i < j
        /\ reads[i].chan = "shell" /\ Unrouted(reads[i].env)
        /\ reads[i].env.header.msg_type = MessageType("KernelInfoReply")
        /\ reads[j].chan = "shell" /\ reads[j].ok
        /\ RepliesFor(reads[j].env.header) # <<>>

\* ----------------------------------------------------------------- C12
\* The execution states the front end has seen on the Broadcast socket for
\* the request with header h.
PublishedStates(h) ==
    LET ms == SelectSeq(pubOut, LAMBDA m : m.parent_header = h)
    IN  [i \in 1..Len(ms) |-> ms[i].content.body]

\* C12: for an execute request whose handler succeeded and whose reply was
\* sent, the Busy status is on the Broadcast socket by the time the reply
\* is on the Shell socket, and the reply is on the Shell socket by the time
\* the Idle status is on the Broadcast socket.
C12_BusyReplyIdleObserved ==
    \A c \in 1..Len(calls) :
        (calls[c].variant = "ExecuteRequest" /\ calls[c].outcome = "ok" /\ calls[c].sent) =>
            LET h == calls[c].req.header
            IN  /\ RepliesFor(h) # <<>> =>
                     (PublishedStates(h) # <<>> /\ PublishedStates(h)[1] = "busy")
                /\ (\E k \in 1..Len(PublishedStates(h)) : PublishedStates(h)[k] = "idle") =>
                     RepliesFor(h) # <<>>

\* ----------------------------------------------------------------- C13
\* The Control loop has answered the front end's n-th message.
CtlAnswered(n) ==
    \E k \in 1..Len(ctlOut) : ctlOut[k].parent_header.msg_id = <<"fe", n>>

\* C13: a valid request that is next on the Control socket is received and
\* answered whatever the Shell thread does, also when the Shell thread
\* never leaves the handler it is in and never releases the handler lock.
C13_ControlIndependent ==
    \A n \in 1..MaxMsgs :
        (ctlInbox # <<>> /\ Head(ctlInbox) = Envelope(n, Good("ShutdownRequest")))
            ~> CtlAnswered(n)

\* The Control loop read and answered a request after the Shell loop had
\* received a request that it is still handling, the handler lock held.
C13_Witness ==
    /\ shellPc = "handle"
    /\ handlerLock = "shell"
    /\ \E i, j \in 1..Len(reads) :
         /\ i < j
         /\ reads[i].chan = "shell" /\ reads[i].ok
         /\ reads[i].env.header = shellReq.msg.header
         /\ reads[j].chan = "control" /\ reads[j].ok
         /\ CtlAnswered(reads[j].env.header.msg_id[2])

\* ----------------------------------------------------------------- C14
\* s is an initial part of t.
IsPrefix(s, t) == Len(s) <= Len(t) /\ \A k \in 1..Len(s) : s[k] = t[k]

\* The execute requests in the order in which the Shell loop received them.
ReceivedExec ==
    LET rs == SelectSeq(Dispatched,
                        LAMBDA r : r.env.header.msg_type = MessageType("ExecuteRequest"))
    IN  [k \in 1..Len(rs) |-> rs[k].env.header.msg_id]

\* The requests whose evaluation the execution thread began, in order.
Begun ==
    LET bs == SelectSeq(evalLog, LAMBDA e : e.ev = "begin")
    IN  [k \in 1..Len(bs) |-> bs[k].of]

\* C14: the execution worker evaluates one execute request at a time (each
\* evaluation ends before the next begins) and begins them in the order in
\* which the Shell loop received them, none skipped and none twice.
C14_OneEvaluationInOrder ==
    /\ \A k \in 1..Len(evalLog) :
         /\ evalLog[k].ev = IF k % 2 = 1 THEN "begin" ELSE "end"
         /\ k % 2 = 0 => evalLog[k].of = evalLog[k - 1].of
    /\ workerPc = "eval" <=> Len(evalLog) % 2 = 1
    /\ IsPrefix(Begun, ReceivedExec)

\* The worker is evaluating the first execute request while the second one
\* waits in the channel.
C14_Witness ==
    /\ workerPc = "eval"
    /\ Len(evalLog) = 1
    /\ Len(execQ) = 1
    /\ Len(ReceivedExec) = 2

\* ----------------------------------------------------------------- C15
\* C15: the handler mutex has at most one holder; the Shell thread is
\* inside a ShellHandler method only while it holds the mutex, and holds
\* it from the lock() in handle_request until handle_request returns, not
\* before and not after.
C15_HandlerUnderLock ==
    /\ handlerLock \in {"free", "shell"}
    /\ shellPc = "handle" => handlerLock = "shell"
    /\ handlerLock = "shell" <=> shellPc \in {"handle", "idle"}

\* The Shell thread is inside a handler method for its second request, the
\* mutex taken again after the first request released it.
C15_Witness ==
    /\ shellPc = "handle"
    /\ handlerLock = "shell"
    /\ Len(calls) = 1

\* ----------------------------------------------------------------- C16
\* send_state(Idle) has been executed for the request with header h: the
\* Idle is in the channel, or its failure was logged.
IdleAttempted(h) ==
    \/ \E k \in 1..Len(iopubQ) :
          iopubQ[k].kind = "Status" /\ iopubQ[k].parent = h /\ iopubQ[k].state = "idle"
    \/ \E k \in 1..Len(warns) : warns[k] = Warn("shell", "idle", h.msg_id)

\* The place of the request with header h among the dispatched requests.
DispatchIndex(h) == CHOOSE i \in 1..Len(Dispatched) : Dispatched[i].env.header = h

\* C16: requests on the Shell socket never overlap: when the loop has
\* received a further request, every earlier one has had its handler
\* called and its Idle sent; in the channel the statuses of an earlier
\* request all come before those of a later one, and the Busy of a request
\* comes after the Idle of the request before it.
C16_NoOverlap ==
    /\ \A i \in 1..Len(Dispatched) :
         i < Len(Dispatched) =>
            /\ CallsFor(Dispatched[i].env.header) # <<>>
            /\ IdleAttempted(Dispatched[i].env.header)
    /\ \A p, q \in 1..Len(iopubQ) :
         (p < q /\ iopubQ[p].kind = "Status" /\ iopubQ[q].kind = "Status") =>
            DispatchIndex(iopubQ[p].parent) <= DispatchIndex(iopubQ[q].parent)
    /\ \A q \in 1..Len(iopubQ) :
         (iopubQ[q].kind = "Status" /\ iopubQ[q].state = "busy"
             /\ DispatchIndex(iopubQ[q].parent) > 1) =>
            \E p \in 1..(q - 1) :
                /\ iopubQ[p].kind = "Status" /\ iopubQ[p].state = "idle"
                /\ iopubQ[p].parent = Dispatched[DispatchIndex(iopubQ[q].parent) - 1].env.header

\* Two requests were served one after the other, each with its own Busy
\* and Idle.
C16_Witness ==
    /\ Len(Dispatched) = 2
    /\ Len(iopubQ) = 4
    /\ iopubQ[2].state = "idle" /\ iopubQ[2].parent = Dispatched[1].env.header
    /\ iopubQ[3].state = "busy" /\ iopubQ[3].parent = Dispatched[2].env.header

\* ----------------------------------------------------------------- C17
\* A failure to enqueue was logged by thread `by` for `what` and `id`.
Warned(by, what, id) == \E k \in 1..Len(warns) : warns[k] = Warn(by, what, id)

\* The Shell thread is past send_state(Busy) for the i-th dispatched
\* request.
BusyAttempted(i) == i < Len(Dispatched) \/ shellPc # "busy"

\* The statuses the Shell thread has enqueued, in the order in which it
\* called send_state, for the first i dispatched requests.
RECURSIVE ShellSent(_)
ShellSent(i) ==
    IF i = 0 THEN <<>>
    ELSE LET h == Dispatched[i].env.header
         IN  ShellSent(i - 1)
             \o (IF BusyAttempted(i) /\ ~Warned("shell", "busy", h.msg_id)
                 THEN <<[kind |-> "Status", parent |-> h, state |-> "busy"]>>
                 ELSE <<>>)
             \o (IF Done(i) /\ ~Warned("shell", "idle", h.msg_id)
                 THEN <<[kind |-> "Status", parent |-> h, state |-> "idle"]>>
                 ELSE <<>>)

\* The events the execution thread has enqueued, in the order in which it
\* went through its evaluations, for the first k entries of its log.
RECURSIVE WorkerSent(_)
WorkerSent(k) ==
    IF k = 0 THEN <<>>
    ELSE LET kind == IF evalLog[k].ev = "begin" THEN "ExecuteInput" ELSE "ExecuteResult"
         IN  WorkerSent(k - 1)
             \o (IF ~Warned("worker", kind, evalLog[k].of)
                 THEN <<[kind |-> kind, parent |-> NoHeader, state |-> evalLog[k].of]>>
                 ELSE <<>>)

Echoed(n) == \E k \in 1..Len(hbOut) : hbOut[k].payload = <<"ping", n>>

\* C18: the handler lock is never held by the Heartbeat loop, and every
\* heartbeat request that waits on the Heartbeat socket is echoed back,
\* whatever the Shell and Control loops do, also when the Shell thread
\* never leaves the handler it is in and the Control loop never gets to
\* the messages waiting for it.
C18_HeartbeatIndependent ==
    /\ [](handlerLock # "heartbeat")
    /\ \A n \in 1..MaxPings :
         (hbInbox # <<>> /\ Head(hbInbox) = <<"ping", n>>) ~> Echoed(n)

\* A heartbeat request was echoed while the Shell thread was inside a
\* handler method and a message waited on the Control socket.
C18_Witness ==
    \E k \in 1..Len(hbOut) :
        /\ hbOut[k].shellAt = "handle"
        /\ hbOut[k].ctlWaiting > 0

\* ----------------------------------------------------------------- C19
\* C19: once the creation of one of the sockets has failed and connect has
\* returned the error, no loop serves any more: no message is read, no
\* handler called, nothing written to a socket and no heartbeat echoed.
C19_FailedStartupServesNothing ==
    [][kpc = "failed" =>
          /\ reads' = reads
          /\ calls' = calls
          /\ shellOut' = shellOut
          /\ ctlOut' = ctlOut
          /\ pubOut' = pubOut
          /\ hbOut' = hbOut]_vars

\* ----------------------------------------------------------------- C20
\* C20: no comm_id denotes two comms: any two comms opened during the
\* run, by the front end or by the kernel, have different comm_ids.
C20_CommIdNeverReused ==
    \A a, b \in 1..Len(comms) : a # b => comms[a].comm_id # comms[b].comm_id

\* ----------------------------------------------------------------- C21
\* The comm_open that a step of handle_comm_open has just handled.
LastCommOpen == commCalls'[Len(commCalls')]

\* A step is a call of handle_comm_open.
CommOpenStep == Len(commCalls') = Len(commCalls) + 1

\* C21: a comm_open whose target_name the kernel does not recognize is
\* answered by nothing and fails nothing: the handler returns Ok, one
\* warning is logged, nothing is written to the Shell socket and no comm
\* is opened (no registry entry, no consumer started).
C21_UnknownTargetIgnored ==
    [][(CommOpenStep /\ LastCommOpen.target_name \notin RecognizedTargets) =>
          /\ LastCommOpen.result = "Ok"
          /\ Len(commWarns') = Len(commWarns) + 1
          /\ shellOut' = shellOut
          /\ comms' = comms]_vars

\* ----------------------------------------------------------------- C22
\* C22: the target_name alone decides: a comm_open whose data are well
\* formed opens a comm exactly when its target_name is recognized,
\* whatever its comm_id.
C22_TargetNameDecides ==
    [][(CommOpenStep /\ LastCommOpen.parses) =>
          (Len(comms') = Len(comms) + 1
             <=> LastCommOpen.target_name \in RecognizedTargets)]_vars

\* ----------------------------------------------------------------- C23
\* The comm_msg that a step of handle_comm_msg has just handled.
LastCommMsg == commMsgCalls'[Len(commMsgCalls')]

\* A step is a call of handle_comm_msg.
CommMsgStep == Len(commMsgCalls') = Len(commMsgCalls) + 1

\* C23: a comm_msg for a comm_id that is not open, because it was never
\* opened or was closed, changes nothing: no consumer gets the payload, the
\* comms and the handler's state stay as they are, and the handler returns
\* Ok.
C23_CommMsgToClosedIsNoOp ==
    [][(CommMsgStep /\ ~LastCommMsg.open) =>
          /\ LastCommMsg.result = "Ok"
          /\ commDelivered' = commDelivered
          /\ comms' = comms
          /\ commClosed' = commClosed
          /\ UNCHANGED arkVars]_vars

\* A comm_msg was handled for a comm closed before, and another for a
\* comm_id that was never opened.
C23_Witness ==
    /\ \E k \in 1..Len(commMsgCalls) :
          ~commMsgCalls[k].open /\ commMsgCalls[k].retired
    /\ \E k \in 1..Len(commMsgCalls) :
          ~commMsgCalls[k].open /\ ~commMsgCalls[k].retired

\* ----------------------------------------------------------------- C30
\* C30: every comm-info reply lists exactly the comms open at the time
\* the request is handled.
C30_CommInfoListsOpenComms ==
    \A k \in 1..Len(commInfoCalls) : commInfoCalls[k].listed = commInfoCalls[k].open

\* ----------------------------------------------------------------- C25
\* Every failure of the Shell thread to enqueue a status or to send a
\* reply is in the log once the step is over, and a request whose Busy
\* could not be enqueued still has its handler called once and its one
\* reply handed to the socket.
FailuresLogged ==
    \A i \in 1..Len(Dispatched) :
        LET h == Dispatched[i].env.header
            id == h.msg_id
            cs == CallsFor(h)
        IN  /\ BusyAttempted(i) =>
                  (Warned("shell", "busy", id)
                      <=> ~\E k \in 1..Len(StatesFor(h)) : StatesFor(h)[k] = "busy")
            /\ Done(i) =>
                  (Warned("shell", "idle", id)
                      <=> ~\E k \in 1..Len(StatesFor(h)) : StatesFor(h)[k] = "idle")
            /\ (Warned("shell", "busy", id) /\ Done(i)) =>
                  /\ Len(cs) = 1
                  /\ Len(cs[1].replies) = 1
                  /\ cs[1].sent => Len(RepliesFor(h)) = 1
            /\ Done(i) =>
                  \A c \in 1..Len(cs) : ~cs[c].sent <=> Warned("shell", "SendError", id)

\* The Shell thread has met a failure to enqueue or to send.
ShellSendFailed ==
    \/ \E c \in 1..Len(calls) : ~calls[c].sent
    \/ \E k \in 1..Len(warns) : warns[k].by = "shell" /\ warns[k].what \in {"busy", "idle"}

\* C25: a failure to enqueue a status or to send a reply is logged and
\* goes no further: the handler is still called and the reply still handed
\* to the socket when Busy could not be enqueued, and after such failures
\* a valid request waiting on the socket is still received and answered.
C25_SendFailuresLoggedOnly ==
    /\ []FailuresLogged
    /\ \A n \in 1..MaxMsgs :
          (ShellSendFailed /\ inbox # <<>> /\ Head(inbox) \in ValidRequests(n))
              ~> (Answered(n) /\ Done(Len(Dispatched)))

\* The first request lost its reply to a failed send; the second was
\* then received, its Busy could not be enqueued, and its handler was
\* called and its reply written all the same.
C25_Witness ==
    /\ Len(Dispatched) = 2
    /\ Done(2)
    /\ ~CallsFor(Dispatched[1].env.header)[1].sent
    /\ Warned("shell", "busy", Dispatched[2].env.header.msg_id)
    /\ Len(CallsFor(Dispatched[2].env.header)) = 1
    /\ Len(RepliesFor(Dispatched[2].env.header)) = 1

\* ----------------------------------------------------------------- C28
\* The channel holds, at place p, the status `state` of the request with
\* message id `id`.
StatusAt(p, id, state) ==
    /\ iopubQ[p].kind = "Status"
    /\ iopubQ[p].parent.msg_id = id
    /\ iopubQ[p].state = state

\* C28: every event the execution thread enqueues for an execute request
\* stands in the channel after the Busy of that request and before its
\* Idle.
C28_WorkerEventsInsideBracket ==
    \A q \in 1..Len(iopubQ) :
        iopubQ[q].kind \in {"ExecuteInput", "ExecuteResult"} =>
            /\ \E p \in 1..(q - 1) : StatusAt(p, iopubQ[q].state, "busy")
            /\ ~\E p \in 1..(q - 1) : StatusAt(p, iopubQ[q].state, "idle")

\* ----------------------------------------------------------------- C29
\* C29: the steps of one request come in the order Busy enqueued, handler
\* called, reply sent, Idle enqueued: when the handler has been called for
\* a request the Busy of that request is in the channel, and when the Idle
\* of a request is in the channel its handler has been called and has
\* handed its reply to the socket.
C29_StepsInOrder ==
    /\ \A c \in 1..Len(calls) :
          \E p \in 1..Len(iopubQ) : StatusAt(p, calls[c].req.header.msg_id, "busy")
    /\ \A q \in 1..Len(iopubQ) :
          (iopubQ[q].kind = "Status" /\ iopubQ[q].state = "idle") =>
             /\ \E p \in 1..(q - 1) : StatusAt(p, iopubQ[q].parent.msg_id, "busy")
             /\ \E c \in 1..Len(calls) :
                   /\ calls[c].req.header = iopubQ[q].parent
                   /\ Len(calls[c].replies) = 1

\* ----------------------------------------------------------------- C24
\* The replies the comm has sent with the identifier id.
RepliesTo(id) == {k \in 1..Len(helpOut) : helpOut[k].kind = "Rpc" /\ helpOut[k].id = id}

\* Every reply carries the identifier of the request that caused it, and
\* every request the comm has taken has one reply.
OneReplyPerRpc ==
    /\ Len(helpOut) = helpDone
    /\ \A k \in 1..Len(helpOut) : helpOut[k].id = helpRpcs[k].id
    /\ \A i \in 1..helpDone : Cardinality(RepliesTo(helpRpcs[i].id)) = 1

NonNa(kind, data) == \A i \in 1..Len(data) : kind = "character" \/ ~IsNa(kind, data[i])

\* The vector has the length of the data, get_unchecked has returned
\* Some of the value at each index asked for, the comparison with the
\* data, if made, found them equal, and the iterator has returned the
\* values in order and None after the last.
VectorMatchesData ==
    /\ VecLen(vecObj) = Len(vecData)
    /\ \A g \in 1..Len(vecGot) : vecGot[g].value = Some(vecData[vecGot[g].index + 1])
    /\ vecEq \in {"unset", "true"}
    /\ \A k \in 1..Len(vecYield) :
          vecYield[k] = IF k <= Len(vecData) THEN Some(Some(vecData[k])) ELSE IterEnd

\* C26 as stated: a vector created from any sequence of values none of
\* which is NA has the sequence's length, returns Some of the i-th value
\* from get_unchecked(i), compares equal to the sequence, and iterates
\* over the values in order and then ends.
C26_VectorMatchesNonNaData ==
    (vecPc = "created" /\ NonNa(vecKind, vecData)) => VectorMatchesData

\* C26 amended: the same for any sequence of values none of which is NA
\* or NaN.
C26_VectorMatchesOrdinaryData ==
    (vecPc = "created" /\ NonNa(vecKind, vecData)
        /\ \A i \in 1..Len(vecData) : vecData[i] # "NaN") => VectorMatchesData

\* A numeric vector of two values was created, read at both indices,
\* compared with its data and iterated to the end.
C26_Witness ==
    /\ vecPc = "created"
    /\ vecKind = "numeric"
    /\ vecData = <<"1.0", "2.0">>
    /\ Len(vecGot) = 2
    /\ vecEq = "true"
    /\ Len(vecYield) = 3
    /\ vecYield[3] = IterEnd

\* ----------------------------------------------------------------- C27
\* No braced expression lies on the way from the cursor's node up to its
\* k-th ancestor-or-self, that node excluded.
NoBraceBelow(k) == \A j \in 1..(k - 1) : subPath[j].type # "BracedExpression"

\* The k-th node is the subset node the walk up from the cursor's node
\* meets first, with no braced expression before it.
FirstSubset(k) ==
    /\ subPath[k].type \in SubsetTypes
    /\ NoBraceBelow(k)
    /\ \A j \in 1..(k - 1) : subPath[j].type \notin SubsetTypes

\* C27: completions_from_subset returns completions only when the cursor
\* is inside the delimiters of an enclosing subset node reached from the
\* cursor's node with no braced expression on the way; with the cursor
\* right before the opening delimiter of the subset node it reaches, or
\* right after its closing delimiter, it returns None.
C27_SubsetOnlyInsideDelimiters ==
    subPc = "done" =>
        /\ subResult \in {"SomeEmpty", "SomeNames"} =>
              \E k \in 1..Len(subPath) :
                  /\ subPath[k].type \in SubsetTypes
                  /\ NoBraceBelow(k)
                  /\ IsWithinSubsetDelimiters(subPoint, subPath[k])
        /\ \A k \in 1..Len(subPath) :
              (FirstSubset(k)
                  /\ subPoint \in {subPath[k].open,
                                   subPath[k].close + DelimWidth(subPath[k].type)})
                 => subResult = "None"

\* Completions were returned for a cursor inside `[[ ]]`, on a node
\* below the subset node.
C27_Witness ==
    /\ subPc = "done"
    /\ subResult = "SomeNames"
    /\ Len(subPath) >= 2
    /\ subPath[1].type = "Identifier"
    /\ subPath[2].type = "Subset2"
    /\ subAt = 2


\* ---------------------------------------------------------------- C31
\* The Opened events sent to the comm manager for the comm with this id.
OpenedFor(id) == {k \in 1..Len(commEvents) : commEvents[k].comm.comm_id = id}

\* C31: every RDataViewer that was started has a comm whose id no other
\* viewer and no comm_open of a front end has, with initiator BackEnd and
\* target positron.dataViewer; exactly one Opened event was sent to the
\* comm manager for it if its data set was built, and none if not; and
\* no event is sent on the channel but these.
C31_ViewerAnnouncedOnce ==
    /\ \A v \in 1..Len(viewers) :
         /\ viewers[v].comm = Comm(viewers[v].id, "positron.dataViewer", "BackEnd")
         /\ \A w \in 1..Len(viewers) : w # v => viewers[w].id # viewers[v].id
         /\ \A c \in 1..Len(commCalls) : commCalls[c].comm_id # viewers[v].id
         /\ Cardinality(OpenedFor(viewers[v].id))
              = (IF viewers[v].built = "ok" THEN 1 ELSE 0)
    /\ \A k \in 1..Len(commEvents) :
         /\ commEvents[k].kind = "Opened"
         /\ \E v \in 1..Len(viewers) : commEvents[k].comm = viewers[v].comm

\* Two viewers were started, one whose data set was built and one whose
\* data set was not, after a front end had opened a comm.
C31_Witness ==
    /\ Len(commCalls) > 0
    /\ \E v, w \in 1..Len(viewers) :
         /\ viewers[v].built = "ok"
         /\ viewers[w].built # "ok"
         /\ Cardinality(OpenedFor(viewers[v].id)) = 1
         /\ OpenedFor(viewers[w].id) = {}
\* ---------------------------------------------------------------- C32
\* The listener was bound at most once, and every session met it bound
\* once and began after every earlier session's disconnect was cleaned up.
OneListenerOneClient ==
    /\ dapBinds <= 1
    /\ \A n \in 1..Len(dapStarts) :
         /\ dapStarts[n].session = n
         /\ dapStarts[n].binds = 1
         /\ dapStarts[n].disconnects = n - 1

\* C32: the listener is bound once and never rebound, a session begins
\* only after the one before it is over, and whenever the client of a
\* session has disconnected the DAP thread comes back to accept, and
\* accepts the next client if one has connected.
C32_AcceptsAgainAfterDisconnect ==
    /\ []OneListenerOneClient
    /\ \A n \in 1..MaxClients :
         /\ (dapSession = n /\ dapConn = "closed")
               ~> (dapSession > n \/ (dapPc = "accept" /\ dapDisconnects = n))
         /\ (dapSession = n /\ dapConn = "closed" /\ dapConnects > n)
               ~> (dapSession > n)
\* ---------------------------------------------------------------- C37
\* The places in dapOut of what was written for the request numbered seq.
WrittenFor(kind, seq) ==
    {k \in 1..Len(dapOut) : dapOut[k].kind = kind /\ dapOut[k].seq = seq}

\* The request serve has read and is handling, or has ended on.
InHand == dapReq # NoDapReq

\* C37: a call of serve that has read a request returns true after
\* writing exactly one response for it, a success response if the command
\* is one of the five handled and an error response if not, and does not
\* end in any other way; serve returns false only when the client has
\* disconnected.
C37_OneResponsePerRequest ==
    /\ \A k \in 1..Len(dapServes) :
         dapServes[k].returned = "true" =>
            /\ Cardinality(WrittenFor("response", dapServes[k].seq)) = 1
            /\ \A r \in WrittenFor("response", dapServes[k].seq) :
                  dapOut[r].success = (dapOut[r].command \in HandledCommands)
    /\ InHand => dapPc \in {"respond", "event"}
    /\ dapPc = "clear" => dapConn = "closed"

\* ---------------------------------------------------------------- C38
\* C38: a session that begins after a disconnect meets debugging true
\* only if the R side has set it since that disconnect was cleaned up.
C38_DebuggingClearedOnDisconnect ==
    \A n \in 2..Len(dapStarts) :
        dapStarts[n].debugging => dapStarts[n].epoch >= n - 1

\* A second session began with debugging false although R had set it
\* during the first and has not cleared it: the frames R left are still
\* there.
C38_Witness ==
    /\ Len(dapStarts) = 2
    /\ ~dapStarts[2].debugging
    /\ dapStarts[2].epoch = 0
    /\ dapDbgEpoch = 0
    /\ dapStack = "Frames"

\* ---------------------------------------------------------------- C39
\* C39: every event written has the body its command calls for,
\* Initialized for Initialize and Stopped for Attach, and comes after the
\* one success response to the same request; a request whose response was
\* not written has no event.
C39_ResponseBeforeEvent ==
    \A e \in 1..Len(dapOut) :
        dapOut[e].kind = "event" =>
           /\ dapOut[e].command \in {"Initialize", "Attach"}
           /\ dapOut[e].body = (IF dapOut[e].command = "Initialize"
                                THEN "Initialized" ELSE "Stopped")
           /\ \E r \in 1..(e - 1) :
                 /\ dapOut[r].kind = "response"
                 /\ dapOut[r].seq = dapOut[e].seq
                 /\ dapOut[r].command = dapOut[e].command
                 /\ dapOut[r].success

\* An Initialize and an Attach were answered, each with its event after
\* its response, and a third request that sends an event ended without
\* its response and without its event.
C39_Witness ==
    /\ \E e \in 1..Len(dapOut) : dapOut[e].body = "Initialized"
    /\ \E e \in 1..Len(dapOut) : dapOut[e].body = "Stopped"
    /\ dapPc = "dead"
    /\ EventOf(dapReq.command) # ""
    /\ WrittenFor("response", dapReq.seq) = {}
    /\ WrittenFor("event", dapReq.seq) = {}
\* ---------------------------------------------------------------- C33
\* The execution thread has taken the request with this message id and
\* has finished evaluating it.
Evaluated(id) == \E k \in 1..Len(evalLog) : evalLog[k] = EvalEntry("end", id)

\* C33: whenever an execute reply with status ok has been written to the
\* Shell socket for an execute request, the execution thread has received
\* that request and finished its evaluation.
C33_ReplyAfterEvaluation ==
    \A c \in 1..Len(calls) :
        (calls[c].variant = "ExecuteRequest" /\ calls[c].outcome = "ok" /\ calls[c].sent)
            => Evaluated(calls[c].req.header.msg_id)
\* ---------------------------------------------------------------- C34
\* The step is the Shell loop's rejection of a message as
\* UnsupportedMessage.
UnsupportedStep ==
    /\ Len(reads') = Len(reads) + 1
    /\ reads'[Len(reads')].chan = "shell"
    /\ reads'[Len(reads')].kind = "UnsupportedMessage"

\* C34: the step in which the Shell loop rejects a message as
\* UnsupportedMessage takes the message from the socket, records the
\* failure and logs it, and changes nothing else: no status is enqueued,
\* the handler lock is not taken, no handler is called, nothing is sent,
\* and the loop is where it was, at its receive.
C34_UnsupportedChangesNothingElse ==
    [][UnsupportedStep =>
          /\ inbox' = Tail(inbox)
          /\ warns' = Append(warns, Warn("shell", "UnsupportedMessage",
                                         Head(inbox).header.msg_id))
          /\ shellPc = "wait" /\ shellPc' = "wait"
          /\ handlerLock = "free"
          /\ UNCHANGED <<iopubQ, handlerLock, calls, shellOut, ctlOut, pubOut, shellReq,
                         shellResult, kpc, iopubRx, ctlInbox, feSent, sideVars>>]_vars

\* A request was handled, with its statuses in the channel, and the
\* message read after it has just been rejected as UnsupportedMessage.
C34_Witness ==
    /\ calls # <<>>
    /\ iopubQ # <<>>
    /\ reads # <<>>
    /\ reads[Len(reads)].chan = "shell"
    /\ reads[Len(reads)].kind = "UnsupportedMessage"
    /\ warns # <<>>
    /\ warns[Len(warns)].what = "UnsupportedMessage"
\* ---------------------------------------------------------------- C35
\* The envelope a wire message answers: the one read whose header is the
\* message's parent header.
RequestsOf(wire) == {i \in 1..Len(reads) : reads[i].env.header = wire.parent_header}

\* The wire message has the identity frames of the request it answers and
\* is delivered to the front end that sent that request, and to it alone.
RoutedBack(wire) ==
    /\ RequestsOf(wire) # {}
    /\ \A i \in RequestsOf(wire) :
         /\ wire.zmq_identities = reads[i].env.zmq_identities
         /\ RoutedTo(wire) = {SenderOf(reads[i].env.header.msg_id[2])}

\* C35: every reply and error reply built for a request has the routing
\* identities of that request, and every reply written to the Shell or the
\* Control socket is delivered to the front end that sent the request and
\* to no other; the messages built with create, on the IOPub thread, have
\* no routing identities.
C35_RepliesRoutedToRequester ==
    /\ \A i \in 1..Len(calls) :
         \A j \in 1..Len(calls[i].replies) :
            calls[i].replies[j].zmq_identities = Dispatched[i].env.zmq_identities
    /\ \A k \in 1..Len(shellOut) : RoutedBack(shellOut[k])
    /\ \A k \in 1..Len(ctlOut) : RoutedBack(ctlOut[k])
    /\ \A k \in 1..Len(pubOut) : pubOut[k].zmq_identities = <<>>

\* A reply went to one front end and an error reply to the other, and a
\* status was published.
C35_Witness ==
    /\ \E i, j \in 1..Len(calls) :
         /\ calls[i].outcome = "ok" /\ calls[i].sent
         /\ calls[j].outcome = "err" /\ calls[j].sent
         /\ calls[j].variant # "ExecuteRequest"
         /\ calls[i].replies[1].zmq_identities = Identities("fe1")
         /\ calls[j].replies[1].zmq_identities = Identities("fe2")
    /\ \E k, l \in 1..Len(shellOut) :
         RoutedTo(shellOut[k]) = {"fe1"} /\ RoutedTo(shellOut[l]) = {"fe2"}
    /\ pubOut # <<>>
\* ---------------------------------------------------------------- C36
\* The Shell loop has received the front end's n-th message as a
\* supported request and is about to enter handle_request with it.
Received(n) == shellPc = "busy" /\ shellReq.msg.header.msg_id = <<"fe", n>>

\* The Idle of the front end's n-th message is in the channel.
IdleEnqueued(n) ==
    \E k \in 1..Len(iopubQ) :
        /\ iopubQ[k].kind = "Status"
        /\ iopubQ[k].parent.msg_id = <<"fe", n>>
        /\ iopubQ[k].state = "idle"

\* The front end's n-th message has left handle_request: its handler was
\* called and the reply send attempted, its Idle is enqueued, the handler
\* lock is free and the loop is back at its receive.
ReachedDone(n) ==
    /\ Answered(n)
    /\ IdleEnqueued(n)
    /\ handlerLock = "free"
    /\ shellPc = "wait"

\* C36: every supported request the Shell loop receives reaches Done, the
\* handler method being taken to return; and the handler lock is free
\* whenever the loop waits for the next message.
C36_EveryRequestReachesDone ==
    /\ [](shellPc = "wait" => handlerLock = "free")
    /\ \A n \in 1..MaxMsgs : Received(n) ~> ReachedDone(n)
\* ---------------------------------------------------------------- C40
\* C40: a call of get returns Ok exactly when its index is at least 0 and
\* below the length of the vector, and it reads an element only then.
C40_GetChecksBounds ==
    vecTried # NoTry =>
        /\ vecTried.ok <=> InRange(vecTried.index, VecLen(vecObj))
        /\ vecTried.read # "none" => InRange(vecTried.index, VecLen(vecObj))
====
